---- MODULE Spec2Model ----
(***************************************************************************)
(* Model of Helium's kernel connection core (src/lib/kernel.py):           *)
(* KernelConnection with its shell and IOPub listener threads, the shell   *)
(* waiting table shell_msg_queues guarded by shell_msg_queues_lock, and    *)
(* the request methods execute_code, get_complete and get_inspection       *)
(* called concurrently by several caller threads against a Jupyter kernel  *)
(* that replies in any order, late, or never.                              *)
(***************************************************************************)
EXTENDS Integers, Sequences, FiniteSets, TLC

\* ---------------------------------------------------------------- bounds
\* Number of caller threads issuing requests concurrently.
NumCallers == 2
\* Number of correlated requests (msg_ids) the client generates in a run.
MaxMsgs == 2
\* Capacity of the IOPub channel between the kernel and the IOPub listener.
MaxIOPub == 1
\* Number of status messages of a kernel run in SpecStatus.
MaxStatus == 4
\* Number of matches in a complete_reply.
MaxMatches == 2
\* Number of IOPub output events of a kernel run whose dispatch is observed.
MaxEvents == 2
\* Number of messages of a kernel run that make a listener raise.
MaxBad == 1
\* Kernels that can be started, and views (buffers) that can be bound.
NumKernels == 2
NumViews == 2
\* The most steps a generator given to chain_callbacks yields.
MaxSteps == 3
\* The most lines of a buffer searched for cell delimiters.
MaxLines == 2
\* The messages queued for the communicator of a websocket connection, and
\* the messages the kernel sends on one socket.
MaxQueued == 2
MaxReceived == 3
\* The milliseconds a view with cells is watched for.
MaxTime == 300
\* The modifications of the view in that time.
MaxModified == 3
\* The longest password typed into the masked input panel.
MaxPassword == 3

Callers == 1..NumCallers
MsgIds == 1..MaxMsgs

\* ------------------------------------------------------- program constants
MSG_TYPE_EXECUTE_REQUEST == "execute_request"
MSG_TYPE_EXECUTE_REPLY == "execute_reply"
MSG_TYPE_COMPLETE_REQUEST == "complete_request"
MSG_TYPE_COMPLETE_REPLY == "complete_reply"
MSG_TYPE_INSPECT_REQUEST == "inspect_request"
MSG_TYPE_INSPECT_REPLY == "inspect_reply"
MSG_TYPE_INPUT_REQUEST == "input_request"
MSG_TYPE_ERROR == "error"
MSG_TYPE_STREAM == "stream"
MSG_TYPE_STATUS == "status"
MSG_TYPE_DISPLAY_DATA == "display_data"
MSG_TYPE_EXECUTE_RESULT == "execute_result"
JUPYTER_PROTOCOL_VERSION == "5.0"

\* The execution_state values a kernel reports in its status messages.
KernelStatusValues == {"starting", "idle", "busy"}

\* The texts a kernel lists as completion matches, the type it knows of each
\* ("None": no type), and the documentation texts it answers an inspection with.
MatchTexts == {"foo.bar", "foo.baz"}
TypeOf(text) == IF text = "foo.bar" THEN "function" ELSE "None"
InspectTexts == {"Docstring"}
\* The exception names a kernel reports in its error events.
ENames == {"ZeroDivisionError", "NameError"}

\* The reply type the kernel answers a request type with.
ReplyType(request_type) ==
  CASE request_type = MSG_TYPE_EXECUTE_REQUEST -> MSG_TYPE_EXECUTE_REPLY
    [] request_type = MSG_TYPE_COMPLETE_REQUEST -> MSG_TYPE_COMPLETE_REPLY
    [] request_type = MSG_TYPE_INSPECT_REQUEST -> MSG_TYPE_INSPECT_REPLY

\* ------------------------------------------------------------------ state
VARIABLES
  execution_state,    \* KernelConnection._execution_state
  shell_msg_queues,   \* the waiting table: msg_id -> reference to a Queue
  queues,             \* the Queue objects: reference -> messages held
  created,            \* msg_id -> number of Queue objects made for that key
  lock,               \* owner of shell_msg_queues_lock ("free" when released)
  id2region,          \* msg_ids with a (view, region) recorded by execute_code
  requests,           \* msg_types of the requests sent; the index is the msg_id
  replied,            \* msg_ids the kernel has answered on the shell channel
  shell_channel,      \* shell replies in flight, kernel -> shell listener
  iopub_channel,      \* IOPub messages in flight, kernel -> IOPub listener
  beating,            \* client.hb_channel.is_beating()
  pc,                 \* caller -> position in the method it runs
  op,                 \* caller -> method it runs
  msg_id,             \* caller -> msg_id of its request (0: none)
  queue,              \* caller -> its local variable queue
  timeout,            \* caller -> whether its call has a finite timeout
  recv_msg,           \* caller -> its local variable recv_msg
  shell_pc,           \* position of ShellMessageReceiver.run
  shell_msg,          \* its local variable msg
  shell_queue,        \* its local variable queue
  delivered,          \* history: msg_id -> replies with that parent a caller got
  removed,            \* history: msg_id -> entries popped from the waiting table
  put_done,           \* history: msg_ids whose reply the listener has queued
  early,              \* history: msg_ids whose reply was queued before the lookup
  timed_out,          \* history: msg_ids whose call returned after its timeout
  unrouted,           \* history: msg_ids with an IOPub event dispatched regionless
  tracking,           \* whether the status history below is recorded
  sent_status,        \* history: status values the kernel has emitted
  seen_status,        \* history: values assigned to execution_state
  kernels,            \* HeliumKernelManager.kernels: the registered kernel ids
  exit,               \* receiver -> whether its exit Event is set
  running,            \* receivers whose run loop has not returned
  stdin_channel,      \* stdin messages in flight, kernel -> stdin listener
  observing,          \* whether the observations below are recorded
  calls,              \* observed: caller -> its latest get_complete/get_inspection
  shown,              \* observed: the calls of _handle_inspect_reply, in order
  published,          \* observed: the IOPub output events the kernel has emitted
  handled,            \* observed: the handler calls of the IOPub listener
  closed,             \* observed: whether the session has been shut down
  logged,             \* observed: the exceptions the listeners have logged
  prompted,           \* observed: the input prompts shown to the user
  view_kernel_table,  \* ViewManager.view_kernel_table: buffer id -> kernel id
  alive,              \* kernel ids whose kernel_manager.is_alive() is true
  receivers,          \* kernel id -> its receiver threads that are running
  objects,            \* kernel id -> KernelConnection objects made for it
  result,             \* observed: the latest manager call and what it gave
  creating,           \* thread -> the kernel id it is making a connection for
  stdin_ui,           \* input panels open, input replies sent, interrupts made
  chain,              \* a chain_callbacks generator and its steps
  flow,               \* the interactive command flow in progress
  codec,              \* a wire message, its decoding and re-encoding
  cells,              \* a buffer and the cell delimiters found in it
  handling,           \* listener -> the message its handler is busy with
  communicator,       \* the websocket revision's AsyncCommunicator and kernel
  run_cell_manager,   \* HeliumRunCellManager: its timer and the updates made
  password_input,     \* the masked input panel of show_password_input
  cell                \* a buffer, a selection and what get_cell gave for it

vars == <<execution_state, shell_msg_queues, queues, created, lock, id2region,
          requests, replied, shell_channel, iopub_channel, beating,
          pc, op, msg_id, queue, timeout, recv_msg,
          shell_pc, shell_msg, shell_queue,
          delivered, removed, put_done, early, timed_out, unrouted, tracking,
          sent_status, seen_status,
          kernels, exit, running, stdin_channel,
          observing, calls, shown, published, handled, closed, logged, prompted,
          view_kernel_table, alive, receivers, objects, result, creating,
          stdin_ui, chain, flow, codec, cells,
          handling, communicator, run_cell_manager, password_input,
          cell>>

tableVars == <<shell_msg_queues, queues, created>>
kernelVars == <<requests, replied, shell_channel, iopub_channel, beating>>
callerVars == <<pc, op, msg_id, queue, timeout, recv_msg>>
shellVars == <<shell_pc, shell_msg, shell_queue>>
histVars == <<delivered, removed, put_done, early, timed_out, unrouted,
             tracking, sent_status, seen_status>>
sessionVars == <<kernels, exit, running, stdin_channel>>
registryVars == <<view_kernel_table, alive, receivers, objects, result,
                 creating>>
sideVars == <<stdin_ui, chain, flow, codec, cells>>
lateVars == <<handling, communicator, run_cell_manager, password_input,
          cell>>
frontVars == <<registryVars, sideVars, lateVars>>
obsVars == <<observing, frontVars, calls, shown, published, handled, closed,
            logged, prompted>>

NoQueue == <<0, 0>>
\* Thread identities, as owners of the lock.
Free == <<"free", 0>>
ShellThread == <<"shell", 0>>
CallerThread(c) == <<"caller", c>>
NoMsg == [msg_type |-> "none", parent |-> 0]
\* The three MessageReceiver threads of a connection.
Receivers == {"shell", "iopub", "stdin"}
\* The kernel id the connection is registered under.
kernel_id == "kernel-1"
\* uuid.uuid4(): the kernel ids that can be drawn.
KernelNames == <<"kernel-1", "kernel-2", "kernel-3">>
KernelIds == {KernelNames[i] : i \in 1..NumKernels}
\* view.buffer_id()
Handles == 1..NumViews
\* No manager call observed yet.
NoResult == [op |-> "none", raised |-> "none"]
\* No input request issued, no input panel open.
NoInput == [panels |-> <<>>, replies |-> <<>>, interrupts |-> 0]
\* No generator made.
NoChain ==
  [pc |-> "idle", len |-> 0, pos |-> 0, started |-> <<>>,
   delivered |-> <<>>, received |-> <<>>]
\* The key of the typing metadata in the content of a complete_reply.
JUPYTER_TYPES == "_jupyter_types_experimental"
\* Python's None, as the type of a typed match.
None == "None"
\* No command flow in progress.
NoFlow ==
  [name |-> "none", pc |-> "done", view |-> 0, kernel |-> None,
   how |-> None, cancelled |-> FALSE]
\* Nothing received.
NoCodec == [wire |-> <<>>, reply |-> <<>>, sent |-> <<>>]
\* No buffer looked at.
NoCells == [buffer |-> <<>>, limits |-> <<>>, phantoms |-> 0]

\* No handler is busy.
NoHandling == [iopub |-> NoMsg, stdin |-> NoMsg, since |-> {}]

\* No websocket connection is looked at.
NoCommunicator ==
  [pc |-> "off", revision |-> "none", message_queue |-> <<>>, queued |-> 0,
   message |-> 0, replies |-> <<>>, replied |-> FALSE,
   execution_state |-> "unset", results |-> <<>>, printed |-> <<>>]

\* No view with cells is looked at.
NoRunCellManager ==
  [pc |-> "off", now |-> 0, timeout_scheduled |-> FALSE,
   needs_update |-> FALSE, due |-> -1, modified |-> 0, updates |-> <<>>]

\* No password is asked for.
NoPassword ==
  [pc |-> "off", text |-> <<>>, hidden_input |-> <<>>, typed |-> <<>>,
   on_done |-> <<>>]

\* No cell is asked for.
NoCell ==
  [pc |-> "off", revision |-> "none", buffer |-> <<>>, region |-> <<0, 0>>,
   result |-> [start |-> 0, end |-> 0, raised |-> "none"]]
\* No call observed yet.
NoCall == [op |-> "none", state |-> "none", msg_id |-> 0, done |-> TRUE,
           reply |-> NoMsg, value |-> <<>>, raised |-> "none"]

\* --------------------------------------------------------------- helpers
\* defaultdict(Queue).__getitem__: the value under key, a new Queue being
\* inserted first when the key is missing.  fresh is the reference the new
\* Queue would get.
DefaultDictGetNoInsert(table, key, fresh) ==
  IF key \in DOMAIN table
  THEN [table |-> table, queue |-> table[key], isNew |-> FALSE]
  ELSE [table |-> table, queue |-> fresh, isNew |-> TRUE]

DefaultDictGet(table, key, fresh) ==
  IF key \in DOMAIN table
  THEN [table |-> table, queue |-> table[key], isNew |-> FALSE]
  ELSE [table |-> [k \in DOMAIN table \cup {key} |->
                     IF k = key THEN fresh ELSE table[k]],
        queue |-> fresh, isNew |-> TRUE]

\* dict.pop(key, None)
DictPopAll(table, key) == [k \in {} |-> NoQueue]

DictPop(table, key) == [k \in DOMAIN table \ {key} |-> table[k]]

\* The pop stands in the try block, after the reply has been read.
PopAfterReply(table, key, recv) ==
  IF recv = NoMsg THEN table ELSE DictPop(table, key)

\* finally: self.shell_msg_queues.pop(msg_id, None), whether queue.get
\* returned recv or raised Empty and whatever was raised after it.
PopInFinally(table, key, recv) == DictPop(table, key)

\* RLock.acquire() returns when no other thread owns the lock.
CanAcquireAlways(owner, thread) == TRUE

CanAcquire(owner, thread) == owner = Free \/ owner = thread

\* msg["parent_header"]["msg_id"]: the key the shell listener routes by.
RouteKeyFirst(msg) == 1

RouteKey(msg) == msg.parent

\* The branch of IOPubMessageReceiver.run on msg_type for execution_state.
StatusUpdateAny(state, msg) ==
  IF "execution_state" \in DOMAIN msg THEN msg.execution_state ELSE "none"

StatusUpdateSkipStarting(state, msg) ==
  IF msg.msg_type = MSG_TYPE_STATUS /\ msg.execution_state # "starting"
  THEN msg.execution_state ELSE state

StatusUpdateWrongField(state, msg) ==
  IF msg.msg_type = MSG_TYPE_STATUS THEN msg.msg_type ELSE state

StatusUpdate(state, msg) ==
  IF msg.msg_type = MSG_TYPE_STATUS THEN msg.execution_state ELSE state

FreshQueue(key) == <<key, created[key]>>

\* get_complete: self.execution_state != "idle"
NotIdleUnknownOnly(state) == state = "unknown"

NotIdle(state) == state # "idle"

\* The observed record of a call that has sent its request and not returned.
Started(method, state, id) ==
  [op |-> method, state |-> state, msg_id |-> id, done |-> FALSE,
   reply |-> NoMsg, value |-> <<>>, raised |-> "none"]
NoMetadata == [k \in {} |-> <<>>]

\* get_complete, typed branch: one (trigger, contents) pair for a match.
TypedCandidate(match) ==
  <<match.text \o "\t" \o
      (IF match.type = None THEN "<no type info>" ELSE match.type),
    match.text>>

\* get_complete, plain branch: one (trigger, contents) pair for a match.
PlainCandidate(match) == <<match \o "\tHelium", match>>

\* get_complete: the list built from recv_content.  A content without the
\* key read raises KeyError, which except Exception logs: [] is returned.
CandidatesReversed(recv_content) ==
  IF "matches" \in DOMAIN recv_content
  THEN [i \in 1..Len(recv_content.matches) |->
          PlainCandidate(
            recv_content.matches[Len(recv_content.matches) + 1 - i])]
  ELSE <<>>

Candidates(recv_content) ==
  IF /\ "metadata" \in DOMAIN recv_content
     /\ JUPYTER_TYPES \in DOMAIN recv_content.metadata
  THEN LET typed == recv_content.metadata[JUPYTER_TYPES]
       IN [i \in 1..Len(typed) |-> TypedCandidate(typed[i])]
  ELSE IF "matches" \in DOMAIN recv_content
       THEN [i \in 1..Len(recv_content.matches) |->
               PlainCandidate(recv_content.matches[i])]
       ELSE <<>>

\* What get_complete returns for the message its queue.get gave it (NoMsg:
\* Empty was raised).
GetCompleteResult(msg) ==
  IF msg # NoMsg /\ "content" \in DOMAIN msg
  THEN Candidates(msg.content) ELSE <<>>

\* recv_msg["content"]["data"] can be read.
HasData(msg) == "content" \in DOMAIN msg /\ "data" \in DOMAIN msg.content

\* get_inspection: self._handle_inspect_reply(recv_msg["content"]["data"]);
\* without the key, KeyError is raised before the handler is called.
HandleInspectReplyTwice(log, id, msg) ==
  IF HasData(msg)
  THEN log \o <<[msg_id |-> id, data |-> msg.content.data],
                [msg_id |-> id, data |-> msg.content.data]>>
  ELSE log

\* msg["parent_header"]["msg_id"] can be read.
HasRouteKey(msg) == "parent" \in DOMAIN msg

\* IOPubMessageReceiver.run raises KeyError on the message: it has no
\* msg_type, or its content lacks a key the branch of its type reads.
IOPubRaises(msg) ==
  \/ "msg_type" \notin DOMAIN msg
  \/ msg.msg_type = MSG_TYPE_STATUS /\ "execution_state" \notin DOMAIN msg
  \/ msg.msg_type = MSG_TYPE_ERROR /\ "ename" \notin DOMAIN msg

\* StdInMessageReceiver.run raises on the message: KeyError when it has no
\* msg_type or an input_request lacks prompt or password, AttributeError in
\* _handle_input_request for a password prompt (self._kernel.input).
StdInRaises(msg) ==
  \/ "msg_type" \notin DOMAIN msg
  \/ /\ msg.msg_type = MSG_TYPE_INPUT_REQUEST
     /\ \/ "prompt" \notin DOMAIN msg
        \/ "password" \notin DOMAIN msg
        \/ msg.password

\* get_shell_msg / get_iopub_msg / get_stdin_msg(timeout=1) raises Empty:
\* nothing arrived within the timeout.
ReceiveNeverTimesOut(channel) == FALSE

ReceiveTimesOut(channel) == channel = <<>>

\* while not self.exit.is_set(): the receivers running after receiver r has
\* finished an iteration of its loop.
LoopCheck(r) == IF exit[r] THEN running \ {r} ELSE running

\* except Exception as ex: the exception is logged and the loop goes on.
AfterExceptionStops(r) == running \ {r}

AfterException(r) == LoopCheck(r)

\* sublime.active_window().show_input_panel(prompt, "", client.input,
\* lambda x: None, interrupt): an input panel with the prompt is open.
ShowInputPanel(ui, prompt) ==
  [ui EXCEPT !.panels = Append(@, [prompt |-> prompt, password |-> FALSE])]

\* interrupt() in _handle_input_request calls
\* self._kernel.interrupt_kernel(self.kernel_id); the receiver has no
\* attribute kernel_id, so AttributeError is raised in the panel's callback
\* and the kernel manager is not reached.
Interrupt(interrupts) == interrupts

\* The texts a user types into an input panel.
InputValues == {"", "42"}

\* The messages receiver r has passed on so far.
Processed(r) ==
  CASE r = "shell" -> Cardinality(put_done)
    [] r = "iopub" -> Len(handled)
    [] r = "stdin" -> Len(prompted)

\* self._kernel._logger.exception(ex): the log gains an entry, here stamped
\* with the receiver and the number of messages it had passed on.
LoggerException(r) ==
  Append(logged, [receiver |-> r, after |-> Processed(r)])

\* IOPubMessageReceiver.run: the handler a message of a type is passed to.
HandlerOf(msg_type) ==
  CASE msg_type = MSG_TYPE_ERROR -> "_handle_error"
    [] msg_type = MSG_TYPE_STREAM -> "_handle_stream"
    [] OTHER -> "none"

\* view, region = id2region.get(msg["parent_header"].get("msg_id"), (None,
\* None)): the call site recorded for the parent request (0: None).
CallSite(table, msg) == IF msg.parent \in table THEN msg.parent ELSE 0

\* The handler call the IOPub listener makes for an output event.
HandlerCall(table, msg) ==
  [handler |-> HandlerOf(msg.msg_type), parent |-> msg.parent,
   site |-> CallSite(table, msg),
   ename |-> IF msg.msg_type = MSG_TYPE_ERROR THEN msg.ename ELSE "none"]

HandleInspectReply(log, id, msg) ==
  IF HasData(msg)
  THEN Append(log, [msg_id |-> id, data |-> msg.content.data])
  ELSE log

\* Apply a waiting-table lookup by thread-local result r.
ApplyLookup(r, key) ==
  /\ shell_msg_queues' = r.table
  /\ queues' = IF r.isNew /\ r.queue \notin DOMAIN queues
               THEN [q \in DOMAIN queues \cup {r.queue} |->
                       IF q = r.queue THEN <<>> ELSE queues[q]]
               ELSE queues
  /\ created' = IF r.isNew THEN [created EXCEPT ![key] = @ + 1] ELSE created

\* ------------------------------------------------------------------- Init
\* The state of a KernelConnection after __init__.
InitKernelConnection ==
  /\ execution_state = "unknown"
  /\ shell_msg_queues = [k \in {} |-> NoQueue]
  /\ queues = [q \in {} |-> <<>>]
  /\ created = [k \in MsgIds |-> 0]
  /\ lock = Free
  /\ id2region = {}
  /\ requests = <<>>
  /\ replied = {}
  /\ shell_channel = <<>>
  /\ iopub_channel = <<>>
  /\ beating = TRUE
  /\ pc = [c \in Callers |-> "ready"]
  /\ op = [c \in Callers |-> "none"]
  /\ msg_id = [c \in Callers |-> 0]
  /\ queue = [c \in Callers |-> NoQueue]
  /\ timeout = [c \in Callers |-> FALSE]
  /\ recv_msg = [c \in Callers |-> NoMsg]
  /\ shell_pc = "recv"
  /\ shell_msg = NoMsg
  /\ shell_queue = NoQueue
  /\ delivered = [k \in MsgIds |-> 0]
  /\ removed = [k \in MsgIds |-> 0]
  /\ put_done = {}
  /\ early = {}
  /\ timed_out = {}
  /\ unrouted = {}
  /\ sent_status = <<>>
  /\ seen_status = <<>>
  /\ exit = [r \in Receivers |-> FALSE]
  /\ running = Receivers
  /\ stdin_channel = <<>>
  /\ calls = [c \in Callers |-> NoCall]
  /\ shown = <<>>
  /\ published = <<>>
  /\ handled = <<>>
  /\ closed = FALSE
  /\ logged = <<>>
  /\ prompted = <<>>

\* Nothing has been asked of the user, no flow runs, nothing is decoded and
\* no buffer is looked at.
InitStdinUI == stdin_ui = NoInput
InitChain == chain = NoChain
InitFlow == flow = NoFlow
InitCodec == codec = NoCodec
InitCells == cells = NoCells
InitHandling == handling = NoHandling
InitCommunicator == communicator = NoCommunicator
InitRunCellManager == run_cell_manager = NoRunCellManager
InitPassword == password_input = NoPassword
InitCell == cell = NoCell
InitLate ==
  /\ InitHandling
  /\ InitCommunicator
  /\ InitRunCellManager
  /\ InitPassword
  /\ InitCell
InitSide ==
  /\ InitStdinUI /\ InitChain /\ InitFlow /\ InitCodec /\ InitCells
  /\ InitLate

\* One kernel has been started (HeliumKernelManager.start_kernel) and no
\* view is bound to it.
InitConnection ==
  /\ InitKernelConnection
  /\ kernels = {kernel_id}
  /\ view_kernel_table = [h \in {} |-> kernel_id]
  /\ alive = {kernel_id}
  /\ receivers = [k \in KernelIds |-> IF k = kernel_id THEN Receivers ELSE {}]
  /\ objects = [k \in KernelIds |-> IF k = kernel_id THEN 1 ELSE 0]
  /\ result = NoResult
  /\ creating = [c \in Callers |-> None]
  /\ InitSide

Init ==
  /\ tracking = FALSE
  /\ observing = FALSE
  /\ InitConnection

\* ------------------------------------------------- the kernel (environment)
Sent == 1..Len(requests)

\* The kernel answers a request it has not answered yet, in any order.
KernelReply(i) ==
  /\ beating
  /\ i \in Sent \ replied
  /\ shell_channel' = Append(shell_channel,
       [msg_type |-> ReplyType(requests[i]), parent |-> i])
  /\ replied' = replied \cup {i}
  /\ UNCHANGED <<sessionVars, obsVars, execution_state, tableVars, lock, id2region, requests,
                 iopub_channel, beating, callerVars, shellVars, histVars>>

\* The contents a kernel may answer a complete_request with: the matches, with
\* or without the typing metadata (one entry per match), or an error status.
MatchLists == UNION {[1..n -> MatchTexts] : n \in 0..MaxMatches}
TypedMatches(matches) ==
  [i \in 1..Len(matches) |->
     [text |-> matches[i], type |-> TypeOf(matches[i])]]
CompleteContents ==
  {[status |-> "ok", matches |-> m, metadata |-> NoMetadata] :
     m \in MatchLists}
  \cup {[status |-> "ok", matches |-> m,
         metadata |-> JUPYTER_TYPES :> TypedMatches(m)] : m \in MatchLists}
  \cup {[status |-> "error"]}

\* The contents a kernel may answer an inspect_request with: the object's
\* documentation, nothing found, or an error status.
InspectContents ==
  {[status |-> "ok", found |-> TRUE, data |-> "text/plain" :> d] :
     d \in InspectTexts}
  \cup {[status |-> "ok", found |-> FALSE, data |-> NoMetadata],
        [status |-> "error"]}

ReplyContents(request_type) ==
  CASE request_type = MSG_TYPE_COMPLETE_REQUEST -> CompleteContents
    [] request_type = MSG_TYPE_INSPECT_REQUEST -> InspectContents
    [] OTHER -> {[status |-> "ok"]}

\* The kernel answers a request with a reply that carries its content.
KernelReplyContent(i, content) ==
  /\ beating
  /\ i \in Sent \ replied
  /\ content \in ReplyContents(requests[i])
  /\ shell_channel' = Append(shell_channel,
       [msg_type |-> ReplyType(requests[i]), parent |-> i,
        content |-> content])
  /\ replied' = replied \cup {i}
  /\ UNCHANGED <<sessionVars, obsVars, execution_state, tableVars, lock,
                 id2region, requests, iopub_channel, beating, callerVars,
                 shellVars, histVars>>

\* The kernel publishes output of an execute request on IOPub.
KernelStream(i) ==
  /\ beating
  /\ i \in Sent
  /\ requests[i] = MSG_TYPE_EXECUTE_REQUEST
  /\ Len(iopub_channel) < MaxIOPub
  /\ observing => Len(published) < MaxEvents
  /\ iopub_channel' = Append(iopub_channel,
       [msg_type |-> MSG_TYPE_STREAM, parent |-> i])
  /\ published' = IF observing
                  THEN Append(published,
                         [msg_type |-> MSG_TYPE_STREAM, parent |-> i])
                  ELSE published
  /\ UNCHANGED <<sessionVars, observing, frontVars, calls, shown, handled, closed,
                 logged, prompted, execution_state, tableVars, lock,
                 id2region, requests, replied, shell_channel, beating,
                 callerVars, shellVars, histVars>>

\* The kernel publishes the error an execute request ended with on IOPub.
KernelError(i, ename) ==
  /\ beating
  /\ i \in Sent
  /\ requests[i] = MSG_TYPE_EXECUTE_REQUEST
  /\ Len(iopub_channel) < MaxIOPub
  /\ observing => Len(published) < MaxEvents
  /\ iopub_channel' = Append(iopub_channel,
       [msg_type |-> MSG_TYPE_ERROR, parent |-> i, ename |-> ename])
  /\ published' = IF observing
                  THEN Append(published,
                         [msg_type |-> MSG_TYPE_ERROR, parent |-> i,
                          ename |-> ename])
                  ELSE published
  /\ UNCHANGED <<sessionVars, observing, frontVars, calls, shown, handled, closed,
                 logged, prompted, execution_state, tableVars, lock,
                 id2region, requests, replied, shell_channel, beating,
                 callerVars, shellVars, histVars>>

\* The kernel broadcasts a status message; the value is the kernel's choice.
KernelStatus(v) ==
  /\ beating
  /\ Len(iopub_channel) < MaxIOPub
  /\ tracking => Len(sent_status) < MaxStatus
  /\ iopub_channel' = Append(iopub_channel,
       [msg_type |-> MSG_TYPE_STATUS, parent |-> 0, execution_state |-> v])
  /\ sent_status' = IF tracking THEN Append(sent_status, v) ELSE sent_status
  /\ UNCHANGED <<sessionVars, obsVars, execution_state, tableVars, lock, id2region, requests,
                 replied, shell_channel, beating, callerVars, shellVars,
                 delivered, removed, put_done, early, timed_out, unrouted,
                 tracking, seen_status>>

\* The kernel process dies or the connection is lost: heartbeats stop.
KernelDies ==
  /\ beating
  /\ beating' = FALSE
  /\ UNCHANGED <<sessionVars, obsVars, execution_state, tableVars, lock, id2region, requests,
                 replied, shell_channel, iopub_channel, callerVars,
                 shellVars, histVars>>

\* The messages of a channel that make its listener raise, and how many of
\* them are in flight.
MalformedMessages(r) ==
  CASE r = "shell" -> {[msg_type |-> MSG_TYPE_EXECUTE_REPLY]}
    [] r = "iopub" -> {[parent |-> 0],
                       [msg_type |-> MSG_TYPE_STATUS, parent |-> 0]}
    [] r = "stdin" -> {[parent |-> 0]}
ShellRaises(msg) == msg # NoMsg /\ ~HasRouteKey(msg)
BadPending ==
  Cardinality({i \in 1..Len(shell_channel) : ShellRaises(shell_channel[i])})
  + Cardinality({i \in 1..Len(iopub_channel) : IOPubRaises(iopub_channel[i])})
  + Cardinality({i \in 1..Len(stdin_channel) : StdInRaises(stdin_channel[i])})
  + (IF ShellRaises(shell_msg) THEN 1 ELSE 0)

\* The kernel (or the transport) delivers a malformed message on a channel.
KernelMalformed(r, msg) ==
  /\ beating
  /\ msg \in MalformedMessages(r)
  /\ Len(logged) + BadPending < MaxBad
  /\ CASE r = "shell" ->
            /\ shell_channel' = Append(shell_channel, msg)
            /\ UNCHANGED <<iopub_channel, stdin_channel>>
       [] r = "iopub" ->
            /\ Len(iopub_channel) < MaxIOPub
            /\ iopub_channel' = Append(iopub_channel, msg)
            /\ UNCHANGED <<shell_channel, stdin_channel>>
       [] r = "stdin" ->
            /\ Len(stdin_channel) < MaxIOPub
            /\ stdin_channel' = Append(stdin_channel, msg)
            /\ UNCHANGED <<shell_channel, iopub_channel>>
  /\ UNCHANGED <<kernels, exit, running, obsVars, execution_state, tableVars,
                 lock, id2region, requests, replied, beating, callerVars,
                 shellVars, histVars>>

\* The kernel asks for input while it runs an execute request.
KernelInputRequest(i, password) ==
  /\ beating
  /\ i \in Sent
  /\ requests[i] = MSG_TYPE_EXECUTE_REQUEST
  /\ Len(stdin_channel) < MaxIOPub
  /\ IF password THEN Len(logged) + BadPending < MaxBad
                 ELSE Len(prompted) < MaxEvents
  /\ stdin_channel' = Append(stdin_channel,
       [msg_type |-> MSG_TYPE_INPUT_REQUEST, parent |-> i,
        prompt |-> IF password THEN "Password:" ELSE "Name:",
        password |-> password])
  /\ UNCHANGED <<kernels, exit, running, obsVars, execution_state, tableVars,
                 lock, id2region, kernelVars, callerVars, shellVars,
                 histVars>>

\* ----------------------------------------------------- KernelConnection
\* The method returns: its frame, with its local variables, is gone.
Return(c) ==
  /\ pc' = [pc EXCEPT ![c] = "ready"]
  /\ op' = [op EXCEPT ![c] = "none"]
  /\ msg_id' = [msg_id EXCEPT ![c] = 0]
  /\ queue' = [queue EXCEPT ![c] = NoQueue]
  /\ timeout' = [timeout EXCEPT ![c] = FALSE]
  /\ recv_msg' = [recv_msg EXCEPT ![c] = NoMsg]

\* get_complete, first lines: not idle, return [] at once.
GetCompleteNotIdle(c) ==
  /\ pc[c] = "ready"
  /\ NotIdle(execution_state)
  /\ calls' = IF observing
              THEN [calls EXCEPT ![c] =
                      [NoCall EXCEPT !.op = "get_complete",
                                     !.state = execution_state]]
              ELSE calls
  /\ UNCHANGED <<sessionVars, observing, frontVars, shown, published, handled, closed,
                 logged, prompted, execution_state, tableVars, lock,
                 id2region, kernelVars, pc, op, msg_id, queue, timeout,
                 recv_msg, shellVars, histVars>>

\* client.complete / client.inspect / client.execute: the request is sent and
\* its fresh msg_id returned.
ClientSend(c, request_type) ==
  /\ Len(requests) < MaxMsgs
  /\ requests' = Append(requests, request_type)
  /\ msg_id' = [msg_id EXCEPT ![c] = Len(requests) + 1]
  /\ UNCHANGED <<queue, recv_msg>>

\* get_complete: idle, so msg_id = self.client.complete(code, cursor_pos).
GetCompleteSend(c, t) ==
  /\ pc[c] = "ready"
  /\ ~NotIdle(execution_state)
  /\ ClientSend(c, MSG_TYPE_COMPLETE_REQUEST)
  /\ op' = [op EXCEPT ![c] = "get_complete"]
  /\ timeout' = [timeout EXCEPT ![c] = t]
  /\ pc' = [pc EXCEPT ![c] = "acquire"]
  /\ calls' = IF observing
              THEN [calls EXCEPT ![c] =
                      Started("get_complete", execution_state, msg_id'[c])]
              ELSE calls
  /\ UNCHANGED <<sessionVars, observing, frontVars, shown, published, handled, closed,
                 logged, prompted, execution_state, tableVars, lock, id2region, replied,
                 shell_channel, iopub_channel, beating, shellVars, histVars>>

\* get_inspection: msg_id = self.client.inspect(code, cursor_pos, detail_level).
GetInspectionSend(c, t) ==
  /\ pc[c] = "ready"
  /\ ClientSend(c, MSG_TYPE_INSPECT_REQUEST)
  /\ op' = [op EXCEPT ![c] = "get_inspection"]
  /\ timeout' = [timeout EXCEPT ![c] = t]
  /\ pc' = [pc EXCEPT ![c] = "acquire"]
  /\ calls' = IF observing
              THEN [calls EXCEPT ![c] =
                      Started("get_inspection", execution_state, msg_id'[c])]
              ELSE calls
  /\ UNCHANGED <<sessionVars, observing, frontVars, shown, published, handled, closed,
                 logged, prompted, execution_state, tableVars, lock, id2region, replied,
                 shell_channel, iopub_channel, beating, shellVars, histVars>>

\* get_complete / get_inspection: self.shell_msg_queues_lock.acquire().
CallerAcquire(c) ==
  /\ pc[c] \in {"acquire", "finally"}
  /\ CanAcquire(lock, CallerThread(c))
  /\ lock' = CallerThread(c)
  /\ pc' = [pc EXCEPT ![c] = IF pc[c] = "acquire" THEN "lookup" ELSE "pop"]
  /\ UNCHANGED <<sessionVars, obsVars, execution_state, tableVars, id2region, kernelVars, op,
                 msg_id, queue, timeout, recv_msg, shellVars, histVars>>

\* queue = self.shell_msg_queues[msg_id], then the lock is released.
CallerLookup(c) ==
  /\ pc[c] = "lookup"
  /\ LET r == DefaultDictGet(shell_msg_queues, msg_id[c], FreshQueue(msg_id[c]))
     IN /\ ApplyLookup(r, msg_id[c])
        /\ queue' = [queue EXCEPT ![c] = r.queue]
  /\ early' = IF msg_id[c] \in put_done THEN early \cup {msg_id[c]} ELSE early
  /\ lock' = Free
  /\ pc' = [pc EXCEPT ![c] = "wait"]
  /\ UNCHANGED <<sessionVars, obsVars, execution_state, id2region, kernelVars, op, msg_id, timeout,
                 recv_msg, shellVars, delivered, removed, put_done,
                 timed_out, unrouted, tracking, sent_status, seen_status>>

\* recv_msg = queue.get(timeout=timeout) returns the oldest message queued.
CallerGet(c) ==
  /\ pc[c] = "wait"
  /\ queues[queue[c]] # <<>>
  /\ recv_msg' = [recv_msg EXCEPT ![c] = Head(queues[queue[c]])]
  /\ queues' = [queues EXCEPT ![queue[c]] = Tail(@)]
  /\ delivered' = [delivered EXCEPT ![Head(queues[queue[c]]).parent] = @ + 1]
  /\ pc' = [pc EXCEPT ![c] = "finally"]
  /\ shown' = IF observing /\ op[c] = "get_inspection"
              THEN HandleInspectReply(shown, msg_id[c], recv_msg'[c])
              ELSE shown
  /\ UNCHANGED <<sessionVars, observing, frontVars, calls, published, handled, closed,
                 logged, prompted, execution_state, shell_msg_queues,
                 created, lock, id2region,
                 kernelVars, op, msg_id, queue, timeout, shellVars, removed,
                 put_done, early, timed_out, unrouted, tracking, sent_status,
                 seen_status>>

\* get_inspection: queue.get returns a reply with data and the inspection
\* handler raises while it shows the panel; the exception leaves
\* get_inspection through its finally.
CallerGetRaises(c) ==
  /\ pc[c] = "wait"
  /\ op[c] = "get_inspection"
  /\ queues[queue[c]] # <<>>
  /\ HasData(Head(queues[queue[c]]))
  /\ recv_msg' = [recv_msg EXCEPT ![c] = Head(queues[queue[c]])]
  /\ queues' = [queues EXCEPT ![queue[c]] = Tail(@)]
  /\ delivered' = [delivered EXCEPT ![Head(queues[queue[c]]).parent] = @ + 1]
  /\ pc' = [pc EXCEPT ![c] = "finally"]
  /\ calls' = IF observing
              THEN [calls EXCEPT ![c] = [@ EXCEPT !.raised = "Exception"]]
              ELSE calls
  /\ UNCHANGED <<sessionVars, observing, frontVars, shown, published,
                 handled, closed, logged, prompted, execution_state,
                 shell_msg_queues, created, lock, id2region, kernelVars, op,
                 msg_id, queue, timeout, shellVars, removed, put_done, early,
                 timed_out, unrouted, tracking, sent_status, seen_status>>

\* queue.get(timeout=timeout) raises Empty: the timeout elapsed with the queue
\* still empty.  Without a timeout the call blocks.
CallerEmpty(c) ==
  /\ pc[c] = "wait"
  /\ timeout[c]
  /\ queues[queue[c]] = <<>>
  /\ pc' = [pc EXCEPT ![c] = "finally"]
  /\ UNCHANGED <<sessionVars, obsVars, execution_state, tableVars, lock, id2region, kernelVars, op,
                 msg_id, queue, timeout, recv_msg, shellVars, histVars>>

\* finally: self.shell_msg_queues.pop(msg_id, None), the lock is released and
\* the method returns.
CallerPop(c) ==
  /\ pc[c] = "pop"
  /\ shell_msg_queues' = PopInFinally(shell_msg_queues, msg_id[c], recv_msg[c])
  /\ removed' = [removed EXCEPT ![msg_id[c]] =
                   IF /\ msg_id[c] \in DOMAIN shell_msg_queues
                      /\ msg_id[c] \notin DOMAIN shell_msg_queues'
                   THEN @ + 1 ELSE @]
  /\ timed_out' = IF recv_msg[c] = NoMsg
                  THEN timed_out \cup {msg_id[c]} ELSE timed_out
  /\ lock' = Free
  /\ Return(c)
  /\ calls' = IF observing
              THEN [calls EXCEPT ![c] =
                      [@ EXCEPT !.done = TRUE,
                                !.reply = recv_msg[c],
                                !.value = IF op[c] = "get_complete"
                                          THEN GetCompleteResult(recv_msg[c])
                                          ELSE <<>>,
                                !.raised = IF /\ op[c] = "get_inspection"
                                              /\ recv_msg[c] # NoMsg
                                              /\ ~HasData(recv_msg[c])
                                           THEN "KeyError" ELSE @]]
              ELSE calls
  /\ UNCHANGED <<sessionVars, observing, frontVars, shown, published, handled, closed,
                 logged, prompted, execution_state, queues, created, id2region, kernelVars,
                 shellVars, delivered, put_done, early, unrouted, tracking,
                 sent_status, seen_status>>

\* execute_code: msg_id = self.client.execute(code).
ExecuteCodeSend(c) ==
  /\ pc[c] = "ready"
  /\ ClientSend(c, MSG_TYPE_EXECUTE_REQUEST)
  /\ op' = [op EXCEPT ![c] = "execute_code"]
  /\ pc' = [pc EXCEPT ![c] = "store"]
  /\ UNCHANGED <<sessionVars, obsVars, execution_state, tableVars, lock, id2region, replied,
                 shell_channel, iopub_channel, beating, timeout, shellVars,
                 histVars>>

\* execute_code: self.id2region[msg_id] = (view, region), and return.
ExecuteCodeStoreAfterReply(c) ==
  /\ pc[c] = "store"
  /\ msg_id[c] \in replied
  /\ id2region' = id2region \cup {msg_id[c]}
  /\ Return(c)
  /\ UNCHANGED <<sessionVars, obsVars, execution_state, tableVars, lock,
                 kernelVars, shellVars, histVars>>

ExecuteCodeStore(c) ==
  /\ pc[c] = "store"
  /\ id2region' = id2region \cup {msg_id[c]}
  /\ Return(c)
  /\ UNCHANGED <<sessionVars, obsVars, execution_state, tableVars, lock, kernelVars, shellVars,
                 histVars>>

\* shutdown_kernel / restart_kernel / interrupt_kernel delegate to
\* kernel_manager; a shut down kernel stops beating, a restarted one beats.
KernelManagerCall(c, call) ==
  /\ pc[c] = "ready"
  /\ beating' = CASE call = "shutdown_kernel" -> FALSE
                  [] call = "restart_kernel" -> TRUE
                  [] OTHER -> beating
  /\ closed' = IF observing /\ call = "shutdown_kernel" THEN TRUE ELSE closed
  /\ UNCHANGED <<sessionVars, observing, frontVars, calls, shown, published, handled,
                 logged, prompted, execution_state, tableVars, lock, id2region, requests,
                 replied, shell_channel, iopub_channel, callerVars,
                 shellVars, histVars>>

\* is_alive(): self.client.hb_channel.is_beating()
is_alive == beating

\* One thread serves the three channels in turn: a receive waits for every
\* handler to return.
OneThreadForAll(r, busy) == busy.iopub = NoMsg /\ busy.stdin = NoMsg

\* _init_receivers starts one thread per receiver: a receiver's loop is held
\* up by its own handler only, and the shell receiver has none.
ThreadFree(r, busy) == r \in {"iopub", "stdin"} => busy[r] = NoMsg

\* ------------------------------------------------- ShellMessageReceiver.run
\* msg = self._kernel.client.get_shell_msg(timeout=1)
ShellRecv ==
  /\ shell_pc = "recv"
  /\ "shell" \in running
  /\ ThreadFree("shell", handling)
  /\ shell_channel # <<>>
  /\ shell_msg' = Head(shell_channel)
  /\ shell_channel' = Tail(shell_channel)
  /\ shell_pc' = "acquire"
  /\ UNCHANGED <<sessionVars, obsVars, execution_state, tableVars, lock, id2region, requests,
                 replied, iopub_channel, beating, callerVars, shell_queue,
                 histVars>>

\* self._kernel.shell_msg_queues_lock.acquire()
ShellAcquire ==
  /\ shell_pc = "acquire"
  /\ CanAcquire(lock, ShellThread)
  /\ lock' = ShellThread
  /\ shell_pc' = "lookup"
  /\ UNCHANGED <<sessionVars, obsVars, execution_state, tableVars, id2region, kernelVars,
                 callerVars, shell_msg, shell_queue, histVars>>

\* queue = shell_msg_queues[msg["parent_header"]["msg_id"]], then release.
\* A message without the key raises KeyError: the lock is released by the
\* finally, the exception is logged and the loop goes on.
ShellLookup ==
  /\ shell_pc = "lookup"
  /\ IF HasRouteKey(shell_msg)
     THEN /\ LET key == RouteKey(shell_msg)
                 r == DefaultDictGet(shell_msg_queues, key, FreshQueue(key))
             IN /\ ApplyLookup(r, key)
                /\ shell_queue' = r.queue
          /\ shell_pc' = "put"
          /\ UNCHANGED <<shell_msg, logged, running>>
     ELSE /\ shell_pc' = "recv"
          /\ shell_msg' = NoMsg
          /\ logged' = LoggerException("shell")
          /\ running' = AfterException("shell")
          /\ UNCHANGED <<tableVars, shell_queue>>
  /\ lock' = Free
  /\ UNCHANGED <<kernels, exit, stdin_channel, observing, frontVars, calls, shown,
                 published, handled, closed, prompted, execution_state,
                 id2region, kernelVars, callerVars, histVars>>

\* queue.put(msg), outside the lock.
ShellPut ==
  /\ shell_pc = "put"
  /\ queues' = [queues EXCEPT ![shell_queue] = Append(@, shell_msg)]
  /\ put_done' = put_done \cup {shell_msg.parent}
  /\ shell_pc' = "recv"
  /\ shell_msg' = NoMsg
  /\ shell_queue' = NoQueue
  /\ running' = LoopCheck("shell")
  /\ UNCHANGED <<kernels, exit, stdin_channel, obsVars, execution_state,
                 shell_msg_queues, created, lock, id2region,
                 kernelVars, callerVars, delivered, removed, early,
                 timed_out, unrouted, tracking, sent_status, seen_status>>

\* get_shell_msg(timeout=1) raises Empty, which is passed over; the loop ends
\* when the exit event is set.
ShellEmpty ==
  /\ shell_pc = "recv"
  /\ "shell" \in running
  /\ ReceiveTimesOut(shell_channel)
  /\ running' = LoopCheck("shell")
  /\ UNCHANGED <<kernels, exit, stdin_channel, obsVars, execution_state,
                 tableVars, lock, id2region, kernelVars, callerVars,
                 shellVars, histVars>>

\* ------------------------------------------------- IOPubMessageReceiver.run
\* One message: looked up in id2region, then dispatched on its msg_type.
IOPubDispatch(msg) ==
  IF IOPubRaises(msg)
  THEN /\ logged' = LoggerException("iopub")
       /\ running' = AfterException("iopub")
       /\ UNCHANGED <<execution_state, unrouted, seen_status, handled>>
  ELSE /\ execution_state' = StatusUpdate(execution_state, msg)
       /\ unrouted' = IF msg.msg_type = MSG_TYPE_STREAM
                         /\ msg.parent \notin id2region
                      THEN unrouted \cup {msg.parent}
                      ELSE unrouted
       /\ seen_status' = IF tracking /\ msg.msg_type = MSG_TYPE_STATUS
                         THEN Append(seen_status, execution_state')
                         ELSE seen_status
       /\ handled' = IF observing /\ HandlerOf(msg.msg_type) # "none"
                     THEN Append(handled, HandlerCall(id2region, msg))
                     ELSE handled
       /\ running' = LoopCheck("iopub")
       /\ UNCHANGED logged

IOPubRun ==
  /\ "iopub" \in running
  /\ iopub_channel # <<>>
  /\ IOPubDispatch(Head(iopub_channel))
  /\ iopub_channel' = Tail(iopub_channel)
  /\ UNCHANGED <<kernels, exit, stdin_channel, observing, frontVars, calls, shown,
                 published, closed, prompted, tableVars, lock, id2region,
                 requests, replied, shell_channel, beating, callerVars,
                 shellVars, delivered, removed, put_done, early, timed_out,
                 tracking, sent_status>>

\* get_iopub_msg(timeout=1) raises Empty.
IOPubEmpty ==
  /\ "iopub" \in running
  /\ ReceiveTimesOut(iopub_channel)
  /\ running' = LoopCheck("iopub")
  /\ UNCHANGED <<kernels, exit, stdin_channel, obsVars, execution_state,
                 tableVars, lock, id2region, kernelVars, callerVars,
                 shellVars, histVars>>

\* ------------------------------------------------- StdInMessageReceiver.run
\* One message: an input_request is passed to _handle_input_request, which
\* shows the input panel for a plain prompt; other types are passed over.
StdInDispatch(msg) ==
  IF StdInRaises(msg)
  THEN /\ logged' = LoggerException("stdin")
       /\ running' = AfterException("stdin")
       /\ UNCHANGED <<prompted, stdin_ui>>
  ELSE /\ prompted' = IF msg.msg_type = MSG_TYPE_INPUT_REQUEST
                      THEN Append(prompted, msg.prompt) ELSE prompted
       /\ stdin_ui' = IF msg.msg_type = MSG_TYPE_INPUT_REQUEST
                      THEN ShowInputPanel(stdin_ui, msg.prompt)
                      ELSE stdin_ui
       /\ running' = LoopCheck("stdin")
       /\ UNCHANGED logged

StdInRun ==
  /\ "stdin" \in running
  /\ stdin_channel # <<>>
  /\ StdInDispatch(Head(stdin_channel))
  /\ stdin_channel' = Tail(stdin_channel)
  /\ UNCHANGED <<kernels, exit, observing, registryVars, chain, flow, codec,
                 cells, lateVars, calls, shown, published, handled, closed,
                 execution_state, tableVars, lock, id2region, kernelVars,
                 callerVars, shellVars, histVars>>

\* The user submits the text of the oldest open input panel: its on_done,
\* self._kernel.client.input, sends the value as the input reply.
UserSubmits(value) ==
  /\ stdin_ui.panels # <<>>
  /\ stdin_ui' = [stdin_ui EXCEPT !.panels = Tail(@),
                                  !.replies = Append(@, value)]
  /\ UNCHANGED <<sessionVars, observing, registryVars, chain, flow, codec,
                 cells, lateVars, calls, shown, published, handled, closed, logged,
                 prompted, execution_state, tableVars, lock, id2region,
                 kernelVars, callerVars, shellVars, histVars>>

\* The user cancels the oldest open input panel: its on_cancel is interrupt.
UserCancels ==
  /\ stdin_ui.panels # <<>>
  /\ stdin_ui' = [stdin_ui EXCEPT !.panels = Tail(@),
                                  !.interrupts = Interrupt(@)]
  /\ UNCHANGED <<sessionVars, observing, registryVars, chain, flow, codec,
                 cells, lateVars, calls, shown, published, handled, closed, logged,
                 prompted, execution_state, tableVars, lock, id2region,
                 kernelVars, callerVars, shellVars, histVars>>

\* get_stdin_msg(timeout=1) raises Empty.
StdInEmpty ==
  /\ "stdin" \in running
  /\ ReceiveTimesOut(stdin_channel)
  /\ running' = LoopCheck("stdin")
  /\ UNCHANGED <<kernels, exit, stdin_channel, obsVars, execution_state,
                 tableVars, lock, id2region, kernelVars, callerVars,
                 shellVars, histVars>>

\* ------------------------------------------------------- slow handlers
\* get_iopub_msg returns a message and its handler starts; the handler is
\* slow (it waits for the plugin host).
IOPubEnter ==
  /\ "iopub" \in running
  /\ iopub_channel # <<>>
  /\ ThreadFree("iopub", handling)
  /\ handling' = [handling EXCEPT !.iopub = Head(iopub_channel),
                                  !.since = put_done]
  /\ iopub_channel' = Tail(iopub_channel)
  /\ UNCHANGED <<sessionVars, observing, registryVars, sideVars,
                 communicator, run_cell_manager, password_input, cell, calls,
                 shown, published, handled, closed, logged, prompted,
                 execution_state, tableVars, lock, id2region, requests,
                 replied, shell_channel, beating, callerVars, shellVars,
                 histVars>>

\* The slow handler of the IOPub listener returns.
IOPubLeave ==
  /\ handling.iopub # NoMsg
  /\ IOPubDispatch(handling.iopub)
  /\ handling' = [handling EXCEPT !.iopub = NoMsg]
  /\ UNCHANGED <<kernels, exit, stdin_channel, observing, registryVars,
                 sideVars, communicator, run_cell_manager, password_input,
                 cell, calls, shown, published, closed, prompted, tableVars,
                 lock, id2region, kernelVars, callerVars, shellVars,
                 delivered, removed, put_done, early, timed_out, tracking,
                 sent_status>>

\* get_stdin_msg returns a message and its handler starts.
StdInEnter ==
  /\ "stdin" \in running
  /\ stdin_channel # <<>>
  /\ ThreadFree("stdin", handling)
  /\ handling' = [handling EXCEPT !.stdin = Head(stdin_channel),
                                  !.since = put_done]
  /\ stdin_channel' = Tail(stdin_channel)
  /\ UNCHANGED <<kernels, exit, running, observing, registryVars, sideVars,
                 communicator, run_cell_manager, password_input, cell, calls,
                 shown, published, handled, closed, logged, prompted,
                 execution_state, tableVars, lock, id2region, kernelVars,
                 callerVars, shellVars, histVars>>

\* The slow handler of the stdin listener returns.
StdInLeave ==
  /\ handling.stdin # NoMsg
  /\ StdInDispatch(handling.stdin)
  /\ handling' = [handling EXCEPT !.stdin = NoMsg]
  /\ UNCHANGED <<kernels, exit, stdin_channel, observing, registryVars,
                 chain, flow, codec, cells, communicator, run_cell_manager,
                 password_input, cell, calls, shown, published, handled,
                 closed, execution_state, tableVars, lock, id2region,
                 kernelVars, callerVars, shellVars, histVars>>

\* MessageReceiver.shutdown: self.exit.set()
ReceiverShutdown(r) ==
  /\ ~exit[r]
  /\ exit' = [exit EXCEPT ![r] = TRUE]
  /\ UNCHANGED <<kernels, running, stdin_channel, obsVars, execution_state,
                 tableVars, lock, id2region, kernelVars, callerVars,
                 shellVars, histVars>>

\* ------------------------------------------------------ the specifications
Next ==
  \/ \E c \in Callers : GetCompleteNotIdle(c)
  \/ \E c \in Callers, t \in BOOLEAN : GetCompleteSend(c, t)
  \/ \E c \in Callers, t \in BOOLEAN : GetInspectionSend(c, t)
  \/ \E c \in Callers : CallerAcquire(c)
  \/ \E c \in Callers : CallerLookup(c)
  \/ \E c \in Callers : CallerGet(c)
  \/ \E c \in Callers : CallerEmpty(c)
  \/ \E c \in Callers : CallerPop(c)
  \/ \E c \in Callers : ExecuteCodeSend(c)
  \/ \E c \in Callers : ExecuteCodeStore(c)
  \/ \E c \in Callers :
       \E call \in {"shutdown_kernel", "restart_kernel", "interrupt_kernel"} :
         KernelManagerCall(c, call)
  \/ ShellRecv
  \/ ShellAcquire
  \/ ShellLookup
  \/ ShellPut
  \/ ShellEmpty
  \/ IOPubRun
  \/ IOPubEmpty
  \/ \E i \in MsgIds : KernelReply(i)
  \/ \E i \in MsgIds : KernelStream(i)
  \/ \E v \in KernelStatusValues : KernelStatus(v)


Spec == Init /\ [][Next]_vars

\* A session whose callers are quiet: the kernel's status broadcasts, the IOPub
\* listener, the kernel's death and the lifecycle operations, with the status
\* history recorded.
InitStatus ==
  /\ tracking = TRUE
  /\ observing = FALSE
  /\ InitConnection

NextStatus ==
  \/ \E v \in KernelStatusValues : KernelStatus(v)
  \/ IOPubRun
  \/ KernelDies
  \/ \E c \in Callers :
       \E call \in {"shutdown_kernel", "restart_kernel", "interrupt_kernel"} :
         KernelManagerCall(c, call)

SpecStatus == InitStatus /\ [][NextStatus]_vars

\* The plugin host's thread, which runs the commands and event listeners of
\* src/helium.py one after the other.
MainThread == CHOOSE c \in Callers : TRUE

\* Sessions whose requests come from the plugin host's thread and whose
\* kernel answers with replies that carry content; each call and each call of
\* the inspection handler is observed.
InitRequests ==
  /\ tracking = FALSE
  /\ observing = TRUE
  /\ InitConnection

\* The steps of a blocking call once its request is sent, and of the shell
\* listener.
NextWaiting ==
  \/ CallerAcquire(MainThread)
  \/ CallerLookup(MainThread)
  \/ CallerGet(MainThread)
  \/ CallerEmpty(MainThread)
  \/ CallerPop(MainThread)
  \/ ShellRecv
  \/ ShellAcquire
  \/ ShellLookup
  \/ ShellPut

\* Completions: HeliumCompleter.on_query_completions against a kernel that
\* reports itself idle or busy.
NextComplete ==
  \/ GetCompleteNotIdle(MainThread)
  \/ \E t \in BOOLEAN : GetCompleteSend(MainThread, t)
  \/ NextWaiting
  \/ IOPubRun
  \/ \E i \in MsgIds : \E content \in CompleteContents :
       KernelReplyContent(i, content)
  \/ \E v \in {"idle", "busy"} : KernelStatus(v)

SpecComplete == InitRequests /\ [][NextComplete]_vars

\* Inspections: HeliumGetObjectInspection.
NextInspect ==
  \/ \E t \in BOOLEAN : GetInspectionSend(MainThread, t)
  \/ NextWaiting
  \/ \E i \in MsgIds : \E content \in InspectContents :
       KernelReplyContent(i, content)

SpecInspect == InitRequests /\ [][NextInspect]_vars

\* Completions and inspections against a kernel whose replies may come
\* late, carry an error status or no content, and with an inspection
\* handler that may raise.
NextExits ==
  \/ \E t \in BOOLEAN : GetCompleteSend(MainThread, t)
  \/ \E t \in BOOLEAN : GetInspectionSend(MainThread, t)
  \/ NextWaiting
  \/ CallerGetRaises(MainThread)
  \/ \E i \in MsgIds :
       \E content \in CompleteContents \cup InspectContents :
         KernelReplyContent(i, content)
  \/ \E i \in MsgIds : KernelReply(i)
  \/ KernelStatus("idle")
  \/ IOPubRun

SpecExits == InitRequests /\ [][NextExits]_vars

\* The steps of a call that blocks without a timeout, and of the shell
\* listener.
NextBlocking ==
  \/ CallerAcquire(MainThread)
  \/ CallerLookup(MainThread)
  \/ CallerGet(MainThread)
  \/ CallerPop(MainThread)
  \/ ShellRecv
  \/ ShellAcquire
  \/ ShellLookup
  \/ ShellPut

\* A session with slow handlers: executions and inspections from the plugin
\* host's thread, output and input requests from the kernel.
NextChannels ==
  \/ ExecuteCodeSend(MainThread)
  \/ ExecuteCodeStore(MainThread)
  \/ GetInspectionSend(MainThread, FALSE)
  \/ NextBlocking
  \/ IOPubEnter
  \/ IOPubLeave
  \/ StdInEnter
  \/ StdInLeave
  \/ \E i \in MsgIds : \E content \in InspectContents :
       KernelReplyContent(i, content)
  \/ \E i \in MsgIds : KernelStream(i)
  \/ \E i \in MsgIds : KernelInputRequest(i, FALSE)

SpecChannels == InitRequests /\ [][NextChannels]_vars

\* The same, the caller's thread and the shell listener being scheduled;
\* nothing is assumed of the kernel, and a handler of the IOPub or stdin
\* listener may never return.
SpecChannelsFair ==
  /\ InitRequests
  /\ [][NextChannels]_vars
  /\ WF_vars(NextBlocking)

\* HeliumGetObjectInspection.run: kernel.get_inspection(code, cursor_pos),
\* the timeout left at its default None.
HeliumGetObjectInspectionRun(c) == GetInspectionSend(c, FALSE)

\* HeliumCompleter.on_query_completions: kernel.get_complete(code, col,
\* timeout), the timeout being the "complete_timeout" setting, a number or
\* None when the setting is absent.
on_query_completions(c) == \E t \in BOOLEAN : GetCompleteSend(c, t)

\* The two commands against a kernel that reports itself idle and answers
\* or stays silent.
NextCommands ==
  \/ HeliumGetObjectInspectionRun(MainThread)
  \/ on_query_completions(MainThread)
  \/ NextWaiting
  \/ \E i \in MsgIds :
       \E content \in CompleteContents \cup InspectContents :
         KernelReplyContent(i, content)
  \/ KernelStatus("idle")
  \/ IOPubRun

SpecCommands == InitRequests /\ [][NextCommands]_vars

\* The same, the caller's thread and the listeners being scheduled: a call
\* or a listener that can take its next step takes it.  Nothing is assumed
\* of the kernel.
SpecCommandsFair ==
  /\ InitRequests
  /\ [][NextCommands]_vars
  /\ WF_vars(NextWaiting)
  /\ WF_vars(IOPubRun)

\* HeliumKernelManager.list_kernels: the registered kernels that are alive.
list_kernels == {k \in kernels : is_alive}

\* Executions and lifecycle operations from the plugin host's thread: the
\* kernel answers on the shell channel, publishes stream and error events
\* on IOPub, or stays silent; each handler call is observed.
NextExecute ==
  \/ ExecuteCodeSend(MainThread)
  \/ ExecuteCodeStore(MainThread)
  \/ \E call \in {"shutdown_kernel", "restart_kernel", "interrupt_kernel"} :
       KernelManagerCall(MainThread, call)
  \/ ShellRecv
  \/ ShellAcquire
  \/ ShellLookup
  \/ ShellPut
  \/ IOPubRun
  \/ \E i \in MsgIds : KernelReply(i)
  \/ \E i \in MsgIds : KernelStream(i)
  \/ \E i \in MsgIds : \E ename \in ENames : KernelError(i, ename)

SpecExecute == InitRequests /\ [][NextExecute]_vars

\* The same, the caller's thread being scheduled: a call that can take its
\* next step takes it.  Nothing is assumed of the kernel.
SpecExecuteFair ==
  /\ InitRequests
  /\ [][NextExecute]_vars
  /\ \A c \in Callers : WF_vars(ExecuteCodeStore(c))

\* The three listeners of a session whose kernel also delivers malformed
\* messages and input requests.
ShellRun == ShellRecv \/ ShellAcquire \/ ShellLookup \/ ShellPut \/ ShellEmpty

NextListeners ==
  \/ ExecuteCodeSend(MainThread)
  \/ ExecuteCodeStore(MainThread)
  \/ ShellRecv
  \/ ShellAcquire
  \/ ShellLookup
  \/ ShellPut
  \/ ShellEmpty
  \/ IOPubRun
  \/ IOPubEmpty
  \/ StdInRun
  \/ StdInEmpty
  \/ \E i \in MsgIds : KernelReply(i)
  \/ \E i \in MsgIds : KernelStream(i)
  \/ \E i \in MsgIds : \E password \in BOOLEAN :
       KernelInputRequest(i, password)
  \/ \E r \in Receivers : \E msg \in MalformedMessages(r) :
       KernelMalformed(r, msg)

SpecListeners == InitRequests /\ [][NextListeners]_vars

\* The listeners of a session whose receivers are told to exit at any moment,
\* each listener thread being scheduled; the kernel sends what it likes, or
\* nothing.
NextShutdown ==
  \/ ExecuteCodeSend(MainThread)
  \/ ExecuteCodeStore(MainThread)
  \/ ShellRecv
  \/ ShellAcquire
  \/ ShellLookup
  \/ ShellPut
  \/ ShellEmpty
  \/ IOPubRun
  \/ IOPubEmpty
  \/ StdInRun
  \/ StdInEmpty
  \/ \E r \in Receivers : ReceiverShutdown(r)
  \/ \E i \in MsgIds : KernelReply(i)
  \/ \E i \in MsgIds : KernelStream(i)
  \/ \E i \in MsgIds : KernelInputRequest(i, FALSE)

SpecShutdown == Init /\ [][NextShutdown]_vars

\* Input requests of a running execution, and the user answering the
\* panels they open.
NextStdin ==
  \/ ExecuteCodeSend(MainThread)
  \/ ExecuteCodeStore(MainThread)
  \/ \E i \in MsgIds : \E password \in BOOLEAN :
       KernelInputRequest(i, password)
  \/ StdInRun
  \/ StdInEmpty
  \/ \E value \in InputValues : UserSubmits(value)
  \/ UserCancels

SpecStdin == InitRequests /\ [][NextStdin]_vars

SpecShutdownFair ==
  /\ Init
  /\ [][NextShutdown]_vars
  /\ WF_vars(ShellRun)
  /\ WF_vars(IOPubRun \/ IOPubEmpty)
  /\ WF_vars(StdInRun \/ StdInEmpty)

\* ------------------------------------ HeliumKernelManager and ViewManager
\* The variables of the one connection modelled in detail stay as they are.
connectionVars ==
  <<execution_state, tableVars, lock, id2region, kernelVars, callerVars,
    shellVars, histVars, exit, running, stdin_channel, observing, calls,
    shown, published, handled, closed, logged, prompted>>

\* What the operations of the two managers leave alone.
managerFrame == <<connectionVars, creating, sideVars, lateVars>>
hermesFrame == <<connectionVars, sideVars, lateVars>>

\* How start_kernel is called: with a kernelspec name, with connection
\* info, or with neither.
StartArgs == {"kernelspec_name", "connection_info", "neither"}
\* Where a start fails: nowhere, in the kernel manager (start_kernel,
\* load_connection_info), or in KernelConnection.__init__ at
\* kernel_manager.client() / client.start_channels().
StartFailures == {"none", "kernel_manager", "client"}

\* cls.kernels[kernel_id] = kernel is the last statement of start_kernel.
RegisteredBeforeConnecting(registry, k, failure) ==
  IF failure # "kernel_manager" THEN registry \cup {k} ELSE registry

Registered(registry, k, failure) ==
  IF failure = "none" THEN registry \cup {k} ELSE registry

\* KernelConnection.__init__ ends with _init_receivers, which starts the
\* shell, IOPub and stdin receivers.
InitReceivers(threads, k, failure) ==
  IF failure = "none" THEN [threads EXCEPT ![k] = Receivers] ELSE threads

\* HeliumKernelManager.start_kernel; k is the uuid4 drawn, up whether the
\* kernel attached to by connection info is alive.
StartKernel(k, how, failure, up) ==
  /\ objects[k] = 0
  /\ k \notin kernels
  /\ how = "neither" => failure = "kernel_manager"
  /\ kernels' = Registered(kernels, k, failure)
  /\ receivers' = InitReceivers(receivers, k, failure)
  /\ objects' = IF failure = "none" THEN [objects EXCEPT ![k] = 1] ELSE objects
  /\ alive' = IF failure = "none" /\ (how = "kernelspec_name" \/ up)
              THEN alive \cup {k} ELSE alive
  /\ result' = IF failure = "none"
               THEN [op |-> "start_kernel", raised |-> "none", value |-> k]
               ELSE [op |-> "start_kernel", raised |-> "Exception"]
  /\ UNCHANGED <<view_kernel_table, managerFrame>>

\* cls.view_kernel_table[buffer_id] = kernel
BindKeepFirst(table, h, k) ==
  IF h \in DOMAIN table THEN table
  ELSE [x \in DOMAIN table \cup {h} |-> IF x = h THEN k ELSE table[x]]

Bind(table, h, k) ==
  [x \in DOMAIN table \cup {h} |-> IF x = h THEN k ELSE table[x]]

\* if buffer_id in cls.view_kernel_table: del cls.view_kernel_table[buffer_id]
Unbind(table, h) == [x \in DOMAIN table \ {h} |-> table[x]]

\* ViewManager.connect_kernel: HeliumKernelManager.get_kernel raises
\* KeyError for an id that is not registered.
ConnectKernel(h, k) ==
  /\ IF k \in kernels
     THEN /\ view_kernel_table' = Bind(view_kernel_table, h, k)
          /\ result' = [op |-> "connect_kernel", raised |-> "none",
                        handle |-> h, value |-> k]
     ELSE /\ result' = [op |-> "connect_kernel", raised |-> "KeyError",
                        handle |-> h]
          /\ UNCHANGED view_kernel_table
  /\ UNCHANGED <<kernels, alive, receivers, objects, managerFrame>>

\* ViewManager.remove_view
RemoveView(h) ==
  /\ view_kernel_table' = Unbind(view_kernel_table, h)
  /\ result' = [op |-> "remove_view", raised |-> "none", handle |-> h]
  /\ UNCHANGED <<kernels, alive, receivers, objects, managerFrame>>

\* ViewManager.get_kernel_for_view
GetKernelForView(h) ==
  /\ result' = IF h \in DOMAIN view_kernel_table
               THEN [op |-> "get_kernel_for_view", raised |-> "none",
                     handle |-> h, value |-> view_kernel_table[h]]
               ELSE [op |-> "get_kernel_for_view", raised |-> "KeyError",
                     handle |-> h]
  /\ UNCHANGED <<kernels, view_kernel_table, alive, receivers, objects,
                 managerFrame>>

\* list_kernels: the ids in cls.kernels whose connection is_alive().
ListAlive(registry, live) == {k \in registry : k \in live}

\* list_kernels reads cls.kernels and assigns nothing.
PruneDead(registry, live) == {k \in registry : k \in live}

AfterListing(registry, live) == registry

\* HeliumKernelManager.list_kernels
ListKernels ==
  /\ result' = [op |-> "list_kernels", raised |-> "none",
                value |-> ListAlive(kernels, alive)]
  /\ kernels' = AfterListing(kernels, alive)
  /\ UNCHANGED <<view_kernel_table, alive, receivers, objects,
                 managerFrame>>

\* HeliumKernelManager.shutdown_kernel: get_kernel, then the connection's
\* shutdown_kernel, which delegates to its kernel manager.
ManagerShutdownKernel(k) ==
  /\ IF k \in kernels
     THEN /\ alive' = alive \ {k}
          /\ result' = [op |-> "shutdown_kernel", raised |-> "none",
                        value |-> k]
     ELSE /\ result' = [op |-> "shutdown_kernel", raised |-> "KeyError"]
          /\ UNCHANGED alive
  /\ UNCHANGED <<kernels, view_kernel_table, receivers, objects,
                 managerFrame>>

\* A kernel process ends on its own.
KernelExits(k) ==
  /\ k \in alive
  /\ alive' = alive \ {k}
  /\ UNCHANGED <<kernels, view_kernel_table, receivers, objects, result,
                 managerFrame>>

\* The plugin is loaded: both class-level tables are empty.
InitManagers ==
  /\ tracking = FALSE
  /\ observing = FALSE
  /\ InitKernelConnection
  /\ kernels = {}
  /\ view_kernel_table = [h \in {} |-> kernel_id]
  /\ alive = {}
  /\ receivers = [k \in KernelIds |-> {}]
  /\ objects = [k \in KernelIds |-> 0]
  /\ result = NoResult
  /\ creating = [c \in Callers |-> None]
  /\ InitSide

NextManagers ==
  \/ \E k \in KernelIds : \E how \in StartArgs :
       \E failure \in StartFailures : \E up \in BOOLEAN :
         StartKernel(k, how, failure, up)
  \/ \E h \in Handles : \E k \in KernelIds : ConnectKernel(h, k)
  \/ \E h \in Handles : RemoveView(h)
  \/ \E h \in Handles : GetKernelForView(h)
  \/ ListKernels
  \/ \E k \in KernelIds : ManagerShutdownKernel(k)
  \/ \E k \in KernelIds : KernelExits(k)

SpecManagers == InitManagers /\ [][NextManagers]_vars

\* ---------------------------- KernelManager and ViewManager of src/hermes.py
\* KernelManager.get_kernel, first half: the membership test. A registered
\* id is returned; for an unregistered one the thread goes on to make a
\* KernelConnection.
GetKernelTest(c, k) ==
  /\ creating[c] = None
  /\ IF k \in kernels
     THEN /\ result' = [op |-> "get_kernel", raised |-> "none", value |-> k]
          /\ UNCHANGED creating
     ELSE /\ creating' = [creating EXCEPT ![c] = k]
          /\ UNCHANGED result
  /\ UNCHANGED <<kernels, view_kernel_table, alive, receivers, objects,
                 hermesFrame>>

\* get_kernel for a kernel the server lists.
GetKernel(c, k) ==
  /\ k \in alive
  /\ GetKernelTest(c, k)

\* KernelManager.get_kernel, second half: kernel = KernelConnection(...);
\* cls.kernels[(kernelspec_name, kernel_id)] = kernel
GetKernelCreate(c) ==
  /\ creating[c] # None
  /\ objects[creating[c]] < NumCallers
  /\ objects' = [objects EXCEPT ![creating[c]] = @ + 1]
  /\ kernels' = kernels \cup {creating[c]}
  /\ result' = [op |-> "get_kernel", raised |-> "none",
                value |-> creating[c]]
  /\ creating' = [creating EXCEPT ![c] = None]
  /\ UNCHANGED <<view_kernel_table, alive, receivers, hermesFrame>>

\* KernelManager.start_kernel, up to its get_kernel call: the server starts
\* a kernel and answers with its id.
HermesStartKernel(c, k) ==
  /\ creating[c] = None
  /\ k \notin alive
  /\ k \notin kernels
  /\ objects[k] = 0
  /\ \A d \in Callers : creating[d] # k
  /\ alive' = alive \cup {k}
  /\ creating' = [creating EXCEPT ![c] = k]
  /\ UNCHANGED <<kernels, view_kernel_table, receivers, objects, result,
                 hermesFrame>>

\* ViewManager.connect_kernel of src/hermes.py, once get_kernel has
\* returned the connection.
HermesConnectKernel(h, k) ==
  /\ k \in kernels
  /\ view_kernel_table' = Bind(view_kernel_table, h, k)
  /\ result' = [op |-> "connect_kernel", raised |-> "none",
                handle |-> h, value |-> k]
  /\ UNCHANGED <<kernels, alive, receivers, objects, managerFrame>>

\* KernelManager.shutdown_kernel: the registry entry is deleted, then the
\* server is asked to delete the kernel; an unregistered id fails in the
\* unpacking of its name.
HermesShutdownKernel(k) ==
  /\ IF k \in kernels
     THEN /\ kernels' = kernels \ {k}
          /\ alive' = alive \ {k}
          /\ result' = [op |-> "shutdown_kernel", raised |-> "none",
                        value |-> k]
     ELSE /\ result' = [op |-> "shutdown_kernel", raised |-> "ValueError"]
          /\ UNCHANGED <<kernels, alive>>

\* _shutdown_kernel: the kernel chosen in the menu is shut down and the
\* view the command ran in is removed from the table.
HermesShutdownKernelFlow(h, k) ==
  /\ k \in alive
  /\ HermesShutdownKernel(k)
  /\ view_kernel_table' =
       IF result'.raised = "none" THEN Unbind(view_kernel_table, h)
       ELSE view_kernel_table
  /\ UNCHANGED <<receivers, objects, managerFrame>>

NextHermes ==
  \/ \E c \in Callers : \E k \in KernelIds : HermesStartKernel(c, k)
  \/ \E c \in Callers : \E k \in KernelIds : GetKernel(c, k)
  \/ \E c \in Callers : GetKernelCreate(c)
  \/ \E h \in Handles : \E k \in KernelIds : HermesConnectKernel(h, k)
  \/ \E h \in Handles : RemoveView(h)
  \/ \E h \in Handles : GetKernelForView(h)
  \/ \E h \in Handles : \E k \in KernelIds : HermesShutdownKernelFlow(h, k)

SpecHermes == InitManagers /\ [][NextHermes]_vars

\* ---------------------------------------------------------------------
\* chain_callbacks: a generator yields its steps, each a function taking
\* the callback cb; the wrapper runs them one after the other.

\* What the chain leaves alone.
chainFrame ==
  <<connectionVars, kernels, registryVars, stdin_ui, flow, codec, cells,
    lateVars>>

\* The values a step hands to the callback.
StepResults == {"", "0", "kernel-1"}

\* The arguments of one call of cb: none, or one result.
CallbackArgs == {<<>>} \cup {<<v>> : v \in StepResults}

\* The argument is tested for truth rather than counted.
SendIfTruthy(args) ==
  IF args # <<>> /\ args[1] # "" THEN args[1] ELSE None

\* cb: `if len(args) + len(kwargs) != 0: chain.send(*args, **kwargs)
\* else: next(chain)`; the value the yield expression evaluates to.
Send(args) ==
  IF Len(args) # 0 THEN args[1] ELSE None

\* next_f(cb): the step the generator has just yielded is started.
StartStep(c) ==
  [c EXCEPT !.pc = "waiting", !.pos = @ + 1,
            !.started = Append(@, c.pos + 1)]

\* The generator runs to its next yield, or returns (StopIteration).
Advance(c) ==
  IF c.pos < c.len THEN StartStep(c) ELSE [c EXCEPT !.pc = "done"]

\* wrapper: chain = f(...); next_f = next(chain); next_f(cb). A generator
\* that yields nothing ends the flow at once.
Wrapper(n) ==
  /\ chain.pc = "idle"
  /\ chain' = Advance([chain EXCEPT !.len = n])
  /\ UNCHANGED chainFrame

\* The running step calls cb with its result: the generator resumes with
\* the value and the next step it yields is started.
Callback(args) ==
  /\ chain.pc = "waiting"
  /\ chain' = Advance([chain EXCEPT !.delivered = Append(@, args),
                                    !.received = Append(@, Send(args))])
  /\ UNCHANGED chainFrame

NextChain ==
  \/ \E n \in 0..MaxSteps : Wrapper(n)
  \/ \E args \in CallbackArgs : Callback(args)

SpecChain == InitManagers /\ [][NextChain]_vars

\* ---------------------------------------------------------------------
\* The interactive commands of src/helium.py: each is a chain_callbacks
\* generator whose steps are quick panels and input panels. flow.pc is
\* the panel the flow is waiting in, "done" when no step is pending.

\* What the flows leave alone.
flowFrame ==
  <<connectionVars, creating, stdin_ui, chain, codec, cells, lateVars>>

FlowNames ==
  {"start_kernel", "connect_kernel", "list_kernels", "interrupt_kernel",
   "restart_kernel", "shutdown_kernel"}

\* The first panel a command shows.
FirstPanel(name) ==
  CASE name = "start_kernel" -> "kernelspec_menu"
    [] name = "connect_kernel" -> "kernel_menu"
    [] OTHER -> "selection_menu"

\* is_enabled of the interrupt, restart and shutdown commands: the view is
\* connected to a kernel that is alive.
IsEnabled(name, h) ==
  name \in {"interrupt_kernel", "restart_kernel", "shutdown_kernel"} =>
    /\ h \in DOMAIN view_kernel_table
    /\ view_kernel_table[h] \in alive

\* The generator returns, raises, or is never resumed; cancelled records
\* that the user cancelled a panel of the flow.
Ended(f, cancelled) ==
  [f EXCEPT !.pc = "done", !.cancelled = @ \/ cancelled]

\* The flow goes on to the panel next.
Shows(f, next) == [f EXCEPT !.pc = next]

\* No manager is called.
NoManagerCall ==
  UNCHANGED <<kernels, view_kernel_table, alive, receivers, objects, result>>

\* ViewManager.connect_kernel(view.buffer_id(), name, id) for a listed
\* kernel.
FlowConnect(h, k) ==
  /\ view_kernel_table' = Bind(view_kernel_table, h, k)
  /\ result' = [op |-> "connect_kernel", raised |-> "none", handle |-> h,
                value |-> k]
  /\ UNCHANGED <<kernels, alive, receivers, objects>>

\* ViewManager.remove_view(view.buffer_id())
FlowRemoveView(h) ==
  /\ view_kernel_table' = Unbind(view_kernel_table, h)
  /\ result' = [op |-> "remove_view", raised |-> "none", handle |-> h]
  /\ UNCHANGED <<kernels, alive, receivers, objects>>

\* HeliumKernelManager.interrupt_kernel / restart_kernel of a listed
\* kernel.
FlowSignal(call, k) ==
  /\ result' = [op |-> call, raised |-> "none", value |-> k]
  /\ UNCHANGED <<kernels, view_kernel_table, alive, receivers, objects>>

\* HeliumKernelManager.shutdown_kernel of a listed kernel.
FlowShutdown(k) ==
  /\ alive' = alive \ {k}
  /\ result' = [op |-> "shutdown_kernel", raised |-> "none", value |-> k]
  /\ UNCHANGED <<kernels, view_kernel_table, receivers, objects>>

\* A command's run(): the decorated generator is called and shows its
\* first panel.
FlowRun(name, h) ==
  /\ flow.pc = "done"
  /\ IsEnabled(name, h)
  /\ flow' = [name |-> name, pc |-> FirstPanel(name), view |-> h,
              kernel |-> None, how |-> None, cancelled |-> FALSE]
  /\ NoManagerCall
  /\ UNCHANGED flowFrame

\* _start_kernel, first quick panel: the kernelspecs, "(Enter connection
\* info)" and "(Connect remote kernel via SSH)"; ssh_unset is the SSH item
\* chosen with no ssh_servers configured.
KernelspecMenuItems ==
  {"cancel", "kernelspec", "connection_info", "ssh", "ssh_unset"}

KernelspecMenu(item) ==
  /\ flow.pc = "kernelspec_menu"
  /\ flow' =
       CASE item = "cancel" -> Ended(flow, TRUE)
         [] item = "kernelspec" ->
              Shows([flow EXCEPT !.how = "kernelspec_name"], "connection_name")
         [] item = "connection_info" ->
              Shows([flow EXCEPT !.how = "connection_info"], "connection_info")
         [] item = "ssh" ->
              Shows([flow EXCEPT !.how = "connection_info"], "server_menu")
         [] item = "ssh_unset" -> Ended(flow, FALSE)
  /\ NoManagerCall
  /\ UNCHANGED flowFrame

\* The quick panel of the SSH servers:
\*   server_index = yield partial(window.show_quick_panel, menu_items)
\*   server = servers[menu_items[server_index]]
\* Index -1 names the last server, and the flow asks for the connection
\* info next.
ServerMenu(server_index) ==
  /\ flow.pc = "server_menu"
  /\ flow' = [Shows(flow, "connection_info")
                EXCEPT !.cancelled = @ \/ server_index = -1]
  /\ NoManagerCall
  /\ UNCHANGED flowFrame

\* An input panel is cancelled: on_cancel is None, the generator is never
\* resumed.
CancelInputPanel ==
  /\ flow.pc \in {"connection_info", "connection_name", "new_name"}
  /\ flow' = Ended(flow, TRUE)
  /\ NoManagerCall
  /\ UNCHANGED flowFrame

\* _enter_connection_info: the text is JSON or the path of a connection
\* file, or neither, and then the flow ends with the exception.
EnterConnectionInfo(valid) ==
  /\ flow.pc = "connection_info"
  /\ flow' = IF valid THEN Shows(flow, "connection_name")
             ELSE Ended(flow, FALSE)
  /\ NoManagerCall
  /\ UNCHANGED flowFrame

\* The connection name is entered: HeliumKernelManager.start_kernel, then
\* ViewManager.connect_kernel of the view with the new kernel.
EnterConnectionName(k, failure, up) ==
  /\ flow.pc = "connection_name"
  /\ objects[k] = 0
  /\ k \notin kernels
  /\ flow' = Ended(flow, FALSE)
  /\ kernels' = Registered(kernels, k, failure)
  /\ receivers' = InitReceivers(receivers, k, failure)
  /\ objects' = IF failure = "none" THEN [objects EXCEPT ![k] = 1]
                ELSE objects
  /\ alive' = IF failure = "none" /\ (flow.how = "kernelspec_name" \/ up)
              THEN alive \cup {k} ELSE alive
  /\ view_kernel_table' = IF failure = "none"
                          THEN Bind(view_kernel_table, flow.view, k)
                          ELSE view_kernel_table
  /\ result' = IF failure = "none"
               THEN [op |-> "connect_kernel", raised |-> "none",
                     handle |-> flow.view, value |-> k]
               ELSE [op |-> "start_kernel", raised |-> "Exception"]
  /\ UNCHANGED flowFrame

\* _connect_kernel: the quick panel of the alive kernels and "New kernel".
KernelMenu(item) ==
  /\ flow.pc = "kernel_menu"
  /\ item \in ListAlive(kernels, alive) \cup {"cancel", "new"}
  /\ IF item \in KernelIds
     THEN /\ flow' = Ended(flow, FALSE)
          /\ FlowConnect(flow.view, item)
     ELSE /\ flow' = IF item = "cancel" THEN Ended(flow, TRUE)
                     ELSE Shows(flow, "kernelspec_menu")
          /\ NoManagerCall
  /\ UNCHANGED flowFrame

\* _show_kernel_selection_menu and what its caller does with the kernel
\* chosen. Index -1 hands None to the caller: _interrupt_kernel and
\* _restart_kernel skip the call, _shutdown_kernel skips the shutdown and
\* goes on to ViewManager.remove_view, _list_kernels raises TypeError at
\* selected_kernel["id"]. "New kernel" is offered by _list_kernels only.
SelectionMenu(item) ==
  /\ flow.pc = "selection_menu"
  /\ item \in ListAlive(kernels, alive) \cup {"cancel"}
               \cup (IF flow.name = "list_kernels" THEN {"new"} ELSE {})
  /\ CASE flow.name = "list_kernels" ->
            /\ flow' = CASE item = "cancel" -> Ended(flow, TRUE)
                         [] item = "new" -> Shows(flow, "kernelspec_menu")
                         [] OTHER ->
                              Shows([flow EXCEPT !.kernel = item], "subcommand")
            /\ NoManagerCall
       [] flow.name = "interrupt_kernel" ->
            /\ flow' = Ended(flow, item = "cancel")
            /\ IF item = "cancel" THEN NoManagerCall
               ELSE FlowSignal("interrupt_kernel", item)
       [] flow.name = "restart_kernel" ->
            /\ flow' = Ended(flow, item = "cancel")
            /\ IF item = "cancel" THEN NoManagerCall
               ELSE FlowSignal("restart_kernel", item)
       [] flow.name = "shutdown_kernel" ->
            /\ flow' = Ended(flow, item = "cancel")
            /\ alive' = IF item = "cancel" THEN alive ELSE alive \ {item}
            /\ view_kernel_table' = Unbind(view_kernel_table, flow.view)
            /\ result' = [op |-> "remove_view", raised |-> "none",
                          handle |-> flow.view]
            /\ UNCHANGED <<kernels, receivers, objects>>
  /\ UNCHANGED flowFrame

\* _list_kernels, second quick panel; Connect is left out for the kernel
\* the view is connected to.
Subcommands(f) ==
  {"cancel", "Rename", "Interrupt", "Restart", "Shutdown", "Back"}
    \cup (IF /\ f.view \in DOMAIN view_kernel_table
             /\ view_kernel_table[f.view] = f.kernel
          THEN {} ELSE {"Connect"})

Subcommand(item) ==
  /\ flow.pc = "subcommand"
  /\ item \in Subcommands(flow)
  /\ flow' = CASE item = "cancel" -> Ended(flow, TRUE)
               [] item = "Rename" -> Shows(flow, "new_name")
               [] item = "Back" -> Shows(flow, "selection_menu")
               [] OTHER -> Ended(flow, FALSE)
  /\ CASE item = "Connect" -> FlowConnect(flow.view, flow.kernel)
       [] item = "Interrupt" -> FlowSignal("interrupt_kernel", flow.kernel)
       [] item = "Restart" -> FlowSignal("restart_kernel", flow.kernel)
       [] item = "Shutdown" -> FlowShutdown(flow.kernel)
       [] OTHER -> NoManagerCall
  /\ UNCHANGED flowFrame

\* The new name is entered: conn.connection_name = new_name.
EnterNewName ==
  /\ flow.pc = "new_name"
  /\ flow' = Ended(flow, FALSE)
  /\ NoManagerCall
  /\ UNCHANGED flowFrame

NextFlows ==
  \/ \E name \in FlowNames : \E h \in Handles : FlowRun(name, h)
  \/ \E item \in KernelspecMenuItems : KernelspecMenu(item)
  \/ \E server_index \in {-1, 0} : ServerMenu(server_index)
  \/ CancelInputPanel
  \/ \E valid \in BOOLEAN : EnterConnectionInfo(valid)
  \/ \E k \in KernelIds : \E failure \in StartFailures : \E up \in BOOLEAN :
       EnterConnectionName(k, failure, up)
  \/ \E item \in KernelIds \cup {"cancel", "new"} : KernelMenu(item)
  \/ \E item \in KernelIds \cup {"cancel", "new"} : SelectionMenu(item)
  \/ \E item \in {"cancel", "Connect", "Rename", "Interrupt", "Restart",
                  "Shutdown", "Back"} : Subcommand(item)
  \/ EnterNewName

SpecFlows == InitManagers /\ [][NextFlows]_vars

\* ---------------------------------------------------------------------
\* The messages of src/kernel.py on the websocket. A wire message is the
\* JSON text, written as the sequence of its members in document order,
\* each <<top-level key, key, value>>; an empty object is one member with
\* key "" and value "{}", the channel one member with key "".

\* What encoding and decoding leave alone.
codecFrame ==
  <<connectionVars, kernels, registryVars, stdin_ui, chain, flow, cells,
    lateVars>>

\* The message types the connection consumes.
ConsumedTypes ==
  {MSG_TYPE_EXECUTE_REPLY, MSG_TYPE_COMPLETE_REPLY, MSG_TYPE_INSPECT_REPLY,
   MSG_TYPE_STATUS, MSG_TYPE_STREAM, MSG_TYPE_DISPLAY_DATA,
   MSG_TYPE_EXECUTE_RESULT, MSG_TYPE_ERROR, MSG_TYPE_INPUT_REQUEST}

\* The msg_ids the kernel gives its messages, the id of the request they
\* answer, and what uuid4().hex and datetime.now().isoformat() return in
\* this process.
KernelMsgIds == {"k-1", "k-2"}
RequestMsgId == "req-1"
Uuids == {"u-1", "u-2", "u-3"}
Clock == {"t-1", "t-2"}

\* The channel a consumed message arrives on.
ChannelOf(msg_type) ==
  CASE msg_type \in {MSG_TYPE_EXECUTE_REPLY, MSG_TYPE_COMPLETE_REPLY,
                     MSG_TYPE_INSPECT_REPLY} -> "shell"
    [] msg_type = MSG_TYPE_INPUT_REQUEST -> "stdin"
    [] OTHER -> "iopub"

\* The content fields JupyterReply.__init__ and _communicate read.
ContentOf(msg_type) ==
  CASE msg_type = MSG_TYPE_EXECUTE_REPLY ->
         <<<<"status", "ok">>, <<"execution_count", "1">>>>
    [] msg_type = MSG_TYPE_COMPLETE_REPLY ->
         <<<<"status", "ok">>, <<"matches", "[print]">>>>
    [] msg_type = MSG_TYPE_INSPECT_REPLY ->
         <<<<"status", "ok">>, <<"found", "true">>, <<"data", "doc">>>>
    [] msg_type = MSG_TYPE_STATUS -> <<<<"execution_state", "idle">>>>
    [] msg_type = MSG_TYPE_STREAM ->
         <<<<"name", "stdout">>, <<"text", "hi">>>>
    [] msg_type = MSG_TYPE_DISPLAY_DATA -> <<<<"data", "image/png">>>>
    [] msg_type = MSG_TYPE_EXECUTE_RESULT ->
         <<<<"data", "text/plain">>, <<"execution_count", "1">>>>
    [] msg_type = MSG_TYPE_ERROR ->
         <<<<"ename", "NameError">>, <<"evalue", "x">>,
           <<"traceback", "[]">>>>
    [] msg_type = MSG_TYPE_INPUT_REQUEST ->
         <<<<"prompt", "Name:">>, <<"password", "false">>>>

\* json.dumps of one top-level member whose value is the object dict.
Flat(section, dict) ==
  IF dict = <<>> THEN <<<<section, "", "{}">>>>
  ELSE [i \in 1..Len(dict) |-> <<section, dict[i][1], dict[i][2]>>]

\* A message of the given type as the server writes it; a status
\* broadcast has an empty parent header.
WireMessage(msg_type, id) ==
  Flat("header", <<<<"msg_id", id>>, <<"msg_type", msg_type>>,
                   <<"session", "s-1">>, <<"date", "t-0">>,
                   <<"version", "5.0">>>>)
  \o Flat("parent_header",
          IF msg_type = MSG_TYPE_STATUS THEN <<>>
          ELSE <<<<"msg_id", RequestMsgId>>,
                 <<"msg_type", MSG_TYPE_EXECUTE_REQUEST>>>>)
  \o Flat("metadata", <<>>)
  \o Flat("content", ContentOf(msg_type))
  \o Flat("buffers", <<>>)
  \o <<<<"channel", "", ChannelOf(msg_type)>>>>

\* json.loads, one top-level key: the object under it as the pairs of its
\* keys and values.
Members(wire, section) ==
  LET sel == SelectSeq(wire, LAMBDA m : m[1] = section /\ m[2] # "")
  IN [i \in 1..Len(sel) |-> <<sel[i][2], sel[i][3]>>]

\* reply = json.loads(sock.recv())
Decode(wire) ==
  [header |-> Members(wire, "header"),
   parent_header |-> Members(wire, "parent_header"),
   content |-> Members(wire, "content"),
   channel |-> LET sel == SelectSeq(wire, LAMBDA m : m[1] = "channel")
               IN sel[1][3],
   metadata |-> Members(wire, "metadata"),
   buffers |-> Members(wire, "buffers")]

\* dict[key]
Lookup(dict, key) ==
  LET i == CHOOSE i \in 1..Len(dict) : dict[i][1] = key IN dict[i][2]

\* get_msg_type(message)
get_msg_type(message) == Lookup(message.header, "msg_type")

\* _gen_header: id is uuid4().hex, now is datetime.now().isoformat().
GenHeader(msg_type, id, now) ==
  <<<<"version", JUPYTER_PROTOCOL_VERSION>>, <<"kernel_id", kernel_id>>,
    <<"msg_id", id>>, <<"datetime", now>>, <<"msg_type", msg_type>>>>

\* The message is built with empty content.
EncodeEmptyContent(msg_type, parent_header, channel, content, id, now) ==
  Flat("header", GenHeader(msg_type, id, now))
  \o Flat("parent_header", parent_header)
  \o <<<<"channel", "", channel>>>>
  \o Flat("content", <<>>)
  \o Flat("metadata", <<>>)
  \o Flat("buffers", <<>>)

\* message = dict(header=self._gen_header(msg_type), parent_header=...,
\* channel=..., content=content, metadata={}, buffers={}), then
\* sock.send(json.dumps(message).encode())
Encode(msg_type, parent_header, channel, content, id, now) ==
  Flat("header", GenHeader(msg_type, id, now))
  \o Flat("parent_header", parent_header)
  \o <<<<"channel", "", channel>>>>
  \o Flat("content", content)
  \o Flat("metadata", <<>>)
  \o Flat("buffers", <<>>)

\* A message of a consumed type is received and decoded.
SockRecv(msg_type, id) ==
  /\ codec.wire = <<>> \/ codec.sent # <<>>
  /\ codec' = [wire |-> WireMessage(msg_type, id),
               reply |-> Decode(WireMessage(msg_type, id)),
               sent |-> <<>>]
  /\ UNCHANGED codecFrame

\* The decoded message is encoded again from its type, parent header,
\* channel and content.
SockSend(id, now) ==
  /\ codec.wire # <<>>
  /\ codec.sent = <<>>
  /\ codec' = [codec EXCEPT !.sent =
                 Encode(get_msg_type(codec.reply), codec.reply.parent_header,
                        codec.reply.channel, codec.reply.content, id, now)]
  /\ UNCHANGED codecFrame

NextCodec ==
  \/ \E msg_type \in ConsumedTypes : \E id \in KernelMsgIds :
       SockRecv(msg_type, id)
  \/ \E id \in Uuids : \E now \in Clock : SockSend(id, now)

SpecCodec == InitManagers /\ [][NextCodec]_vars

\* ---------------------------------------------------------------------
\* Cell delimiters. A line is the sequence of its characters, a buffer
\* the sequence of its lines.

\* What the search for delimiters leaves alone.
cellFrame ==
  <<connectionVars, kernels, registryVars, stdin_ui, chain, flow, codec,
    lateVars>>

\* The delimiter lines the tests expect to match.
good_delimiters ==
  {<<"#", "%", "%">>,
   <<"#", " ", "%", "%">>,
   <<"#", " ", "i", "n", "[", "5", "]", ":">>,
   <<"#", " ", "i", "n", "[", "]", ":">>,
   <<"#", " ", "i", "n", ":">>,
   <<"#", "i", "n", ":">>}

\* The lines the tests expect not to match.
bad_delimiters ==
  {<<"#">>,
   <<"#", "%">>,
   <<"#", "%", "?">>,
   <<"%">>,
   <<"%", " ", "1", "2", "3">>,
   <<"n", "o", " ", "w", "a", "y">>,
   <<"#", " ", "n", "o", "r", "m", "a", "l", " ", "c", "o", "m", "m", "e", "n", "t">>,
   <<"#", "x", "i", "n", ":">>,
   <<"#", " ", " ", " ", " ", " ", " ", " ", " ", "i", "n", ":">>,
   <<"#", " ", "i", "n">>,
   <<"i", "n", ":">>,
   <<"#", " ", "I", "n", "[", "5", "]", ":">>,
   <<"#", " ", "I", "n", "[", "]", ":">>,
   <<"#", " ", "I", "n", ":">>}

\* The lines of the buffers searched: "# %% \n" and "# in: \n".
search_lines ==
  {<<"#", " ", "%", "%", " ">>,
   <<"#", " ", "i", "n", ":", " ">>}

Whitespace == {" ", "\t"}
Digits == {"0", "1", "2", "3", "4", "5", "6", "7", "8", "9"}

\* Where a match of the literal lit begun at p ends.
Literal(line, p, lit) ==
  IF /\ p + Len(lit) - 1 <= Len(line)
     /\ SubSeq(line, p, p + Len(lit) - 1) = lit
  THEN {p + Len(lit)} ELSE {}

\* \s? begun at p.
OptionalSpace(line, p) ==
  {p} \cup (IF p <= Len(line) /\ line[p] \in Whitespace THEN {p + 1} ELSE {})

\* \s* begun at p.
Spaces(line, p) ==
  {q \in p..(Len(line) + 1) : \A r \in p..(q - 1) : line[r] \in Whitespace}

\* \d* begun at p.
DigitRun(line, p) ==
  {q \in p..(Len(line) + 1) : \A r \in p..(q - 1) : line[r] \in Digits}

\* (\[\d*\])? begun at p.
OptionalCount(line, p) ==
  {p} \cup UNION {UNION {Literal(line, r, <<"]">>) : r \in DigitRun(line, q)} :
                  q \in Literal(line, p, <<"[">>)}

\* CELL_DELIMITER_PATTERN of the earlier revision,
\* ^(#\s?%%)|(# <codecell>)\s*$ : where its matches at the start of the
\* line end.
CELL_DELIMITER_PATTERN(line) ==
  UNION {Literal(line, q, <<"%", "%">>) :
         q \in UNION {OptionalSpace(line, p) :
                      p \in Literal(line, 1, <<"#">>)}}
  \cup {q \in UNION {Spaces(line, p) :
                     p \in Literal(line, 1, <<"#", " ", "<", "c", "o", "d",
                                             "e", "c", "e", "l", "l", ">">>)} :
          q = Len(line) + 1}

\* The cell_delimiter_pattern of Helium.sublime-settings, a "#", at most
\* one whitespace character, then "%%" or "in", an optional bracketed
\* count and ":"; where its matches at the start of the line end.
cell_delimiter_pattern(line) ==
  UNION {Literal(line, q, <<"%", "%">>)
           \cup UNION {UNION {Literal(line, s, <<":">>) :
                              s \in OptionalCount(line, r)} :
                       r \in Literal(line, q, <<"i", "n">>)} :
         q \in UNION {OptionalSpace(line, p) :
                      p \in Literal(line, 1, <<"#">>)}}

\* re.compile(pattern).match(d)
Match(line) == cell_delimiter_pattern(line) # {}

\* view.find_all(cell_delimiter_pattern): the lines a match begins at, in
\* buffer order.
FindAll(buffer) ==
  SelectSeq([i \in 1..Len(buffer) |-> i], LAMBDA i : Match(buffer[i]))

\* set_text: a line is added to the buffer.
SetText(line) ==
  /\ Len(cells.buffer) < MaxLines
  /\ cells' = [buffer |-> Append(cells.buffer, line), limits |-> <<>>,
               phantoms |-> 0]
  /\ UNCHANGED cellFrame

\* update_run_cell_phantoms: the delimiters found, a virtual delimiter at
\* EOF appended, and one "Run Cell" phantom for each delimiter found.
update_run_cell_phantoms ==
  /\ cells.limits = <<>>
  /\ LET limits == Append(FindAll(cells.buffer), Len(cells.buffer) + 1)
     IN cells' = [cells EXCEPT !.limits = limits,
                               !.phantoms = Len(limits) - 1]
  /\ UNCHANGED cellFrame

NextCells ==
  \/ \E line \in good_delimiters \cup bad_delimiters \cup search_lines :
       SetText(line)
  \/ update_run_cell_phantoms

SpecCells == InitManagers /\ [][NextCells]_vars

\* ---------------------------------------------------------------------
\* The websocket revisions: src/kernel.py (KernelConnection) and the
\* earlier src/lib/jupyter_interaction/kernel.py (Kernel). Messages put
\* on message_queue are numbered in the order they are queued; a message
\* stands for the pair (message, callback).

\* What the communicator leaves alone.
communicatorFrame ==
  <<connectionVars, kernels, registryVars, sideVars, handling,
    run_cell_manager, password_input, cell>>

Revisions == {"kernel", "jupyter_interaction"}

\* The attribute _execution_state before its first assignment.
Unset == "unset"

\* What the kernel may send on the socket opened for message m.
SockMessages(m) ==
  {[msg_type |-> MSG_TYPE_STATUS, parent |-> m, execution_state |-> v] :
     v \in {"busy", "idle"}}
    \cup {[msg_type |-> MSG_TYPE_EXECUTE_RESULT, parent |-> m],
          [msg_type |-> MSG_TYPE_EXECUTE_REPLY, parent |-> m]}

\* msg_type.endswith("_reply")
EndsWithReply(msg_type) ==
  msg_type \in {MSG_TYPE_EXECUTE_REPLY, MSG_TYPE_COMPLETE_REPLY,
                MSG_TYPE_INSPECT_REPLY}

\* One pass of the while loop of _communicate on the message just
\* received. src/kernel.py reads self._execution_state, an attribute
\* __init__ does not assign, when a reply comes; the earlier revision
\* breaks on the reply whatever the status.
LoopPass(revision, state, got_reply, reply) ==
  IF revision = "jupyter_interaction"
  THEN [outcome |-> IF EndsWithReply(reply.msg_type)
                    THEN "break" ELSE "continue",
        state |-> state, replied |-> got_reply]
  ELSE IF EndsWithReply(reply.msg_type)
  THEN IF state = Unset
       THEN [outcome |-> "AttributeError", state |-> state,
             replied |-> got_reply]
       ELSE IF state = "idle"
       THEN [outcome |-> "break", state |-> state, replied |-> got_reply]
       ELSE [outcome |-> "continue", state |-> state, replied |-> TRUE]
  ELSE IF reply.msg_type = MSG_TYPE_STATUS
  THEN [outcome |-> IF reply.execution_state = "idle" /\ got_reply
                    THEN "break" ELSE "continue",
        state |-> reply.execution_state, replied |-> got_reply]
  ELSE [outcome |-> "continue", state |-> state, replied |-> got_reply]

\* extract_content(reply, MSG_TYPE_EXECUTE_RESULT)
extract_content(messages, msg_type) ==
  SelectSeq(messages, LAMBDA message : message.msg_type = msg_type)

\* run_code's callback of the earlier revision unpacks exactly one
\* execute_result: "result, = extract_content(...)" raises ValueError
\* otherwise.
RunCodeCallbackRaises(reply) ==
  Len(extract_content(reply, MSG_TYPE_EXECUTE_RESULT)) # 1

\* KernelConnection.__init__ / Kernel.__init__: the communicator thread is
\* made and started.
CommunicatorStart(revision) ==
  /\ communicator.pc = "off"
  /\ communicator' = [NoCommunicator EXCEPT !.pc = "get",
                                            !.revision = revision]
  /\ UNCHANGED communicatorFrame

\* _async_communicate: message_queue.put((message, callback))
AsyncCommunicate ==
  /\ communicator.pc # "off"
  /\ communicator.queued < MaxQueued
  /\ communicator' =
       [communicator EXCEPT !.queued = @ + 1,
                            !.message_queue = Append(@, communicator.queued + 1)]
  /\ UNCHANGED communicatorFrame

\* AsyncCommunicator.run: message_queue.get() returns the oldest pair and
\* _communicate opens its socket and sends the message.
WorkerGet ==
  /\ communicator.pc = "get"
  /\ communicator.message_queue # <<>>
  /\ communicator' =
       [communicator EXCEPT !.pc = "recv",
                            !.message = Head(communicator.message_queue),
                            !.message_queue = Tail(@),
                            !.replies = <<>>,
                            !.replied = FALSE]
  /\ UNCHANGED communicatorFrame

\* _communicate: sock.recv() returns reply and the loop body runs on it.
\* An exception leaves _communicate; the worker of src/kernel.py prints it
\* and takes the next pair.
CommunicateRecv(reply) ==
  /\ communicator.pc = "recv"
  /\ Len(communicator.replies) < MaxReceived
  /\ reply \in SockMessages(communicator.message)
  /\ LET pass == LoopPass(communicator.revision,
                          communicator.execution_state,
                          communicator.replied, reply)
     IN communicator' =
          [communicator EXCEPT
             !.replies = Append(@, reply),
             !.execution_state = pass.state,
             !.replied = pass.replied,
             !.pc = CASE pass.outcome = "continue" -> "recv"
                      [] pass.outcome = "break" -> "callback"
                      [] OTHER -> "get",
             !.printed = IF pass.outcome \in {"continue", "break"}
                         THEN @ ELSE Append(@, pass.outcome)]
  /\ UNCHANGED communicatorFrame

\* AsyncCommunicator.run: callback(reply). The worker of src/kernel.py
\* prints an exception of the callback and goes on; in the earlier revision
\* the exception ends the thread.
WorkerCallback(raises) ==
  /\ communicator.pc = "callback"
  /\ communicator.revision = "jupyter_interaction"
       => raises = RunCodeCallbackRaises(communicator.replies)
  /\ communicator' =
       [communicator EXCEPT
          !.results = Append(@, [message |-> communicator.message,
                                 reply |-> communicator.replies,
                                 raised |-> raises]),
          !.printed = IF raises /\ communicator.revision = "kernel"
                      THEN Append(@, "Exception") ELSE @,
          !.pc = IF raises /\ communicator.revision = "jupyter_interaction"
                 THEN "stopped" ELSE "get"]
  /\ UNCHANGED communicatorFrame

NextCommunicator ==
  \/ \E revision \in Revisions : CommunicatorStart(revision)
  \/ AsyncCommunicate
  \/ WorkerGet
  \/ \E reply \in SockMessages(communicator.message) : CommunicateRecv(reply)
  \/ \E raises \in BOOLEAN : WorkerCallback(raises)

SpecCommunicator == InitManagers /\ [][NextCommunicator]_vars

\* ---------------------------------------------------------------------
\* HeliumRunCellManager (HermesRunCellManager in src/hermes.py has the same
\* two methods). Time is counted in milliseconds; run_cell_manager.updates
\* holds the times update_run_cell_phantoms was called at.

\* What the manager of the "Run cell" phantoms leaves alone.
runCellFrame ==
  <<connectionVars, kernels, registryVars, sideVars, handling, communicator,
    password_input, cell>>

\* sublime.set_timeout(lambda: self.handle_timeout(), 100)
RunCellDelay == 100

\* HeliumRunCellManager.__init__
RunCellManagerInit ==
  /\ run_cell_manager.pc = "off"
  /\ run_cell_manager' = [NoRunCellManager EXCEPT !.pc = "on"]
  /\ UNCHANGED runCellFrame

\* Time passes; a timer that is due is run first.
Tick ==
  /\ run_cell_manager.pc = "on"
  /\ run_cell_manager.now < MaxTime
  /\ run_cell_manager.due = -1 \/ run_cell_manager.now < run_cell_manager.due
  /\ run_cell_manager' = [run_cell_manager EXCEPT !.now = @ + 50]
  /\ UNCHANGED runCellFrame

\* on_modified: nothing without a live kernel for the view; otherwise the
\* update is put off if a timer is scheduled, and made at once, with a timer
\* set, if none is.
on_modified(connected) ==
  /\ run_cell_manager.pc = "on"
  /\ run_cell_manager.modified < MaxModified
  /\ run_cell_manager' =
       IF ~connected
       THEN [run_cell_manager EXCEPT !.modified = @ + 1]
       ELSE IF run_cell_manager.timeout_scheduled
       THEN [run_cell_manager EXCEPT !.modified = @ + 1,
                                     !.needs_update = TRUE]
       ELSE [run_cell_manager EXCEPT
               !.modified = @ + 1,
               !.due = run_cell_manager.now + RunCellDelay,
               !.timeout_scheduled = TRUE,
               !.updates = Append(@, run_cell_manager.now)]
  /\ UNCHANGED runCellFrame

\* handle_timeout, run by the timer: the update put off is made; no timer
\* is set.
handle_timeout ==
  /\ run_cell_manager.pc = "on"
  /\ run_cell_manager.due # -1
  /\ run_cell_manager.now >= run_cell_manager.due
  /\ run_cell_manager' =
       [run_cell_manager EXCEPT
          !.due = -1,
          !.timeout_scheduled = FALSE,
          !.needs_update = FALSE,
          !.updates = IF run_cell_manager.needs_update
                      THEN Append(@, run_cell_manager.now) ELSE @]
  /\ UNCHANGED runCellFrame

NextRunCell ==
  \/ RunCellManagerInit
  \/ Tick
  \/ \E connected \in BOOLEAN : on_modified(connected)
  \/ handle_timeout

SpecRunCell == InitManagers /\ [][NextRunCell]_vars

\* ---------------------------------------------------------------------
\* show_password_input: the input panel shows a "*" per character and the
\* closure variable hidden_input keeps what was typed. A text is the
\* sequence of its characters; password_input.typed is what the user has
\* typed, edit by edit.

\* What the password panel leaves alone.
passwordFrame ==
  <<connectionVars, kernels, registryVars, sideVars, handling, communicator,
    run_cell_manager, cell>>

\* The characters a user types.
PasswordChars == {"a", "b", "*"}

\* text[a:b] of Python, for b >= 0: a negative a counts from the end.
Slice(text, a, b) ==
  LET from == IF a < 0 THEN (IF Len(text) + a < 0 THEN 0 ELSE Len(text) + a)
              ELSE a
      to == IF b > Len(text) THEN Len(text) ELSE b
  IN IF from >= to THEN <<>> ELSE SubSeq(text, from + 1, to)

\* The number of "*" at the start of text.
RECURSIVE LeadingStars(_)
LeadingStars(text) ==
  IF text = <<>> \/ Head(text) # "*" THEN 0
  ELSE 1 + LeadingStars(Tail(text))

\* The characters other than "*" at the start of text.
RECURSIVE LeadingOthers(_)
LeadingOthers(text) ==
  IF text = <<>> \/ Head(text) = "*" THEN <<>>
  ELSE <<Head(text)>> \o LeadingOthers(Tail(text))

\* PASSWORD_INPUT_PATTERN.match(user_input), the pattern being
\* ^(\**)([^*]+)(\**): the groups; there is no match when the second
\* is empty, the text holding no character other than "*".
PASSWORD_INPUT_PATTERN(user_input) ==
  LET pre == LeadingStars(user_input)
      new == LeadingOthers(Slice(user_input, pre, Len(user_input)))
      post == LeadingStars(Slice(user_input, pre + Len(new), Len(user_input)))
  IN [pre |-> pre, new |-> new, post |-> post]

\* hide_input(user_input): the new value of hidden_input, pos being
\* view.sel()[0].begin().
hide_input(hidden_input, user_input, pos) ==
  LET matches == PASSWORD_INPUT_PATTERN(user_input)
  IN IF matches.new # <<>>
     THEN Slice(hidden_input, 0, matches.pre)
            \o matches.new
            \o (IF matches.post = 0 THEN <<>>
                ELSE Slice(hidden_input, Len(hidden_input) - matches.post,
                           Len(hidden_input)))
     ELSE Slice(hidden_input, 0, pos)
            \o Slice(hidden_input, pos, Len(user_input))

\* MaskInputPanelText.run: every character of the view is replaced by "*".
\* The change it makes calls hide_input once more, with a text of "*"
\* only, which leaves hidden_input as it is.
MaskInputPanelText(text) == [i \in 1..Len(text) |-> "*"]

\* seq with the element e put after its first pos elements.
InsertAt(seq, pos, e) ==
  SubSeq(seq, 1, pos) \o <<e>> \o SubSeq(seq, pos + 1, Len(seq))

\* seq without its element number pos.
RemoveAt(seq, pos) == SubSeq(seq, 1, pos - 1) \o SubSeq(seq, pos + 1, Len(seq))

\* show_password_input: the panel is shown empty.
ShowPasswordInput ==
  /\ password_input.pc = "off"
  /\ password_input' = [NoPassword EXCEPT !.pc = "open"]
  /\ UNCHANGED passwordFrame

\* The user types ch after the first pos characters: on_change calls
\* hide_input with the new text, the cursor standing after ch.
TypeChar(ch, pos) ==
  /\ password_input.pc = "open"
  /\ Len(password_input.typed) < MaxPassword
  /\ pos \in 0..Len(password_input.text)
  /\ LET user_input == InsertAt(password_input.text, pos, ch)
     IN password_input' =
          [password_input EXCEPT
             !.typed = InsertAt(@, pos, ch),
             !.hidden_input = hide_input(@, user_input, pos + 1),
             !.text = MaskInputPanelText(user_input)]
  /\ UNCHANGED passwordFrame

\* The user deletes the character number pos with the backspace key:
\* on_change calls hide_input with the new text, the cursor standing where
\* the character was.
DeleteChar(pos) ==
  /\ password_input.pc = "open"
  /\ pos \in 1..Len(password_input.text)
  /\ LET user_input == RemoveAt(password_input.text, pos)
     IN password_input' =
          [password_input EXCEPT
             !.typed = RemoveAt(@, pos),
             !.hidden_input = hide_input(@, user_input, pos - 1),
             !.text = MaskInputPanelText(user_input)]
  /\ UNCHANGED passwordFrame

\* The user presses enter: get_hidden_input calls on_done(hidden_input).
GetHiddenInput ==
  /\ password_input.pc = "open"
  /\ password_input' = [password_input EXCEPT !.pc = "done",
                                              !.on_done = password_input.hidden_input]
  /\ UNCHANGED passwordFrame

NextPassword ==
  \/ ShowPasswordInput
  \/ \E ch \in PasswordChars : \E pos \in 0..MaxPassword : TypeChar(ch, pos)
  \/ \E pos \in 1..MaxPassword : DeleteChar(pos)
  \/ GetHiddenInput

SpecPassword == InitManagers /\ [][NextPassword]_vars

\* ---------------------------------------------------------------------
\* get_cell, in its three revisions: src/helium.py, src/lib/utils.py and
\* src/hermes.py. The buffer is the sequence of its lines, joined by one
\* newline character; a region is the pair of its two points, counted in
\* characters from 0.

\* What get_cell leaves alone.
getCellFrame ==
  <<connectionVars, kernels, registryVars, sideVars, handling, communicator,
    run_cell_manager, password_input>>

CellRevisions == {"helium", "utils", "hermes"}

\* The lines of the buffers looked at: a delimiter every revision's
\* pattern matches, and a line of code.
CellLines == {<<"#", "%", "%">>, <<"x">>}

\* The point the line number i begins at.
RECURSIVE LineBegin(_, _)
LineBegin(buffer, i) ==
  IF i = 1 THEN 0 ELSE LineBegin(buffer, i - 1) + Len(buffer[i - 1]) + 1

\* view.size()
Size(buffer) ==
  IF buffer = <<>> THEN 0
  ELSE LineBegin(buffer, Len(buffer)) + Len(buffer[Len(buffer)])

\* view.find_all(pattern): the regions of the delimiters, in buffer order.
Separators(buffer) ==
  LET lines == SelectSeq([i \in 1..Len(buffer) |-> i],
                         LAMBDA i : CELL_DELIMITER_PATTERN(buffer[i]) # {})
  IN [k \in 1..Len(lines) |->
        <<LineBegin(buffer, lines[k]),
          LineBegin(buffer, lines[k]) + Len(buffer[lines[k]])>>]

\* sublime.Region.__lt__: by the first point, then by the second.
RegionLess(x, y) == x[1] < y[1] \/ (x[1] = y[1] /\ x[2] < y[2])

\* bisect.bisect(separators, r): the number of separators not after r.
Bisect(separators, r) ==
  Cardinality({k \in 1..Len(separators) : ~RegionLess(r, separators[k])})

\* separators[i] of Python, i counted from 0: -1 is the last element, and
\* an index out of range raises IndexError.
InRange(separators, i) == -Len(separators) <= i /\ i < Len(separators)
Item(separators, i) ==
  IF i < 0 THEN separators[Len(separators) + i + 1] ELSE separators[i + 1]

\* The list get_cell searches: src/helium.py and src/lib/utils.py append a
\* virtual delimiter after the end of the buffer, src/hermes.py none.
SearchedSeparators(revision, buffer) ==
  CASE revision = "helium" ->
         Append(Separators(buffer), <<Size(buffer) + 1, Size(buffer) + 1>>)
    [] revision = "utils" ->
         Append(Separators(buffer), <<Size(buffer) + 2, Size(buffer) + 2>>)
    [] OTHER -> Separators(buffer)

\* The region get_cell bisects with.
SearchedRegion(revision, region) ==
  CASE revision = "helium" -> <<region[1], region[1]>>
    [] revision = "utils" -> <<region[1] + 1, region[1] + 1>>
    [] OTHER -> region

\* get_cell(view, region): the region returned, or the exception raised.
GetCellResult(revision, buffer, region) ==
  IF region[1] # region[2]
  THEN [start |-> region[1], end |-> region[2], raised |-> "none"]
  ELSE LET separators == SearchedSeparators(revision, buffer)
           i == Bisect(separators, SearchedRegion(revision, region))
       IN IF ~InRange(separators, i - 1) \/ ~InRange(separators, i)
          THEN [start |-> 0, end |-> 0, raised |-> "IndexError"]
          ELSE [start |-> Item(separators, i - 1)[2] + 1,
                end |-> Item(separators, i)[1] - 1,
                raised |-> "none"]

\* A view is opened in one of the revisions.
OpenView(revision) ==
  /\ cell.pc = "off"
  /\ cell' = [NoCell EXCEPT !.pc = "edit", !.revision = revision]
  /\ UNCHANGED getCellFrame

\* A line is added to the buffer.
InsertLine(line) ==
  /\ cell.pc = "edit"
  /\ Len(cell.buffer) < MaxLines
  /\ cell' = [cell EXCEPT !.buffer = Append(@, line)]
  /\ UNCHANGED getCellFrame

\* The user puts the cursor at a (a = b) or selects the text from a to b.
Select(a, b) ==
  /\ cell.pc = "edit"
  /\ cell.buffer # <<>>
  /\ a <= b /\ b <= Size(cell.buffer)
  /\ cell' = [cell EXCEPT !.pc = "selected", !.region = <<a, b>>]
  /\ UNCHANGED getCellFrame

\* _execute_cell: code, cell = get_cell(view, region)
get_cell ==
  /\ cell.pc = "selected"
  /\ cell' = [cell EXCEPT
               !.pc = "done",
               !.result = GetCellResult(cell.revision, cell.buffer,
                                        cell.region)]
  /\ UNCHANGED getCellFrame

\* The points a buffer of MaxLines lines can have.
Points == 0..(MaxLines * 4)

NextGetCell ==
  \/ \E revision \in CellRevisions : OpenView(revision)
  \/ \E line \in CellLines : InsertLine(line)
  \/ \E a, b \in Points : Select(a, b)
  \/ get_cell

SpecGetCell == InitManagers /\ [][NextGetCell]_vars

\* ------------------------------------------------------------ properties
Waiting(c) == pc[c] \in {"acquire", "lookup", "wait", "finally", "pop"}
Waited(k) == k \in Sent /\ requests[k] # MSG_TYPE_EXECUTE_REQUEST
InProgress(k) == \E c \in Callers : msg_id[c] = k
Last(seq) == seq[Len(seq)]

\* C1: a shell reply is handed only to the caller whose request carries the
\* reply's parent msg_id, at most once per request, whatever the order of the
\* replies, and the waiting-table entry of a request is removed once: never
\* twice, and exactly once by the time the call has returned.
C1_ReplyToIssuerOnce ==
  /\ \A c \in Callers :
       recv_msg[c] # NoMsg => recv_msg[c].parent = msg_id[c]
  /\ \A k \in MsgIds : delivered[k] <= 1 /\ removed[k] <= 1
  /\ \A k \in MsgIds :
       Waited(k) => removed[k] = IF InProgress(k) THEN 0 ELSE 1

\* Two calls in progress, the reply to the later request handed over first.
C1_Witness ==
  \E c, d \in Callers :
    /\ msg_id[c] = 2 /\ pc[c] = "finally" /\ recv_msg[c].parent = 2
    /\ msg_id[d] = 1 /\ pc[d] = "wait"

C3_EarlyReplyNotLost ==
  \A c \in Callers :
    /\ (pc[c] \in {"finally", "pop"} /\ msg_id[c] \in early) =>
         recv_msg[c].parent = msg_id[c]
    /\ (pc[c] \in {"acquire", "lookup", "wait"} /\ msg_id[c] \in put_done) =>
         /\ msg_id[c] \in DOMAIN shell_msg_queues
         /\ queues[shell_msg_queues[msg_id[c]]] # <<>>
         /\ Head(queues[shell_msg_queues[msg_id[c]]]).parent = msg_id[c]
         /\ pc[c] = "wait" => queue[c] = shell_msg_queues[msg_id[c]]

\* The reply was queued before the requester's lookup, and the requester has it.
C3_Witness ==
  \E c \in Callers :
    msg_id[c] \in early /\ pc[c] = "pop" /\ recv_msg[c].parent = msg_id[c]

\* C4 (as claimed): after a call has returned on its timeout, the waiting
\* table holds no entry for its msg_id.
C4_TimeoutLeavesNoEntry ==
  \A k \in timed_out : k \notin DOMAIN shell_msg_queues

C6_UnsolicitedNotQueued ==
  \A k \in DOMAIN shell_msg_queues : Waited(k)

\* C7: execution_state starts as "unknown" and a step changes it only when the
\* IOPub listener takes a status message off its channel.
C7_StateDrivenByStatus ==
  /\ execution_state = "unknown"
  /\ [][execution_state' # execution_state =>
          /\ iopub_channel # <<>>
          /\ Head(iopub_channel).msg_type = MSG_TYPE_STATUS
          /\ iopub_channel' = Tail(iopub_channel)]_vars

\* Requests of all three kinds were issued and the kernel was shut down, with
\* execution_state as the last status message left it.
C7_Witness ==
  /\ execution_state = "busy"
  /\ ~beating
  /\ \E i, j \in Sent :
       /\ requests[i] = MSG_TYPE_EXECUTE_REQUEST
       /\ requests[j] = MSG_TYPE_COMPLETE_REQUEST
  /\ timed_out # {}

StatusesIn(channel) == [i \in 1..Len(channel) |-> channel[i].execution_state]

DiagramStates == {"unknown", "starting", "idle", "busy", "dead"}
DiagramTransitions ==
  {<<"unknown", "starting">>, <<"starting", "idle">>, <<"idle", "busy">>,
   <<"busy", "idle">>} \cup {<<s, "dead">> : s \in DiagramStates}

\* C9 (as claimed): execution_state is one of the five states and changes
\* along the diagram only.
C9_TransitionsFollowDiagram ==
  [][/\ execution_state' \in DiagramStates
     /\ execution_state' # execution_state =>
          <<execution_state, execution_state'>> \in DiagramTransitions]_vars

\* C9 (amended): execution_state is "unknown" or a value a status message
\* carried, and every change of it sets it to the value of the status message
\* the IOPub listener is processing, whatever the state before.
C9_StateMirrorsStatus ==
  [][/\ execution_state' \in {"unknown"} \cup KernelStatusValues
     /\ execution_state' # execution_state =>
          /\ iopub_channel # <<>>
          /\ execution_state' = Head(iopub_channel).execution_state]_vars

\* The first status message said busy: unknown -> busy.
C9_Witness == seen_status = <<"busy">> /\ execution_state = "busy"

\* C10 (as claimed): once the kernel is dead (no heartbeat) and no status
\* message is left to process, execution_state is "dead".
C10_DeathSurfacesAsDead ==
  (~is_alive /\ iopub_channel = <<>>) => execution_state = "dead"

\* The contents (second components) of the candidates a call returned.
Contents(value) == [i \in 1..Len(value) |-> value[i][2]]
\* The matches a complete_reply reports.
ReportedMatches(content) ==
  IF "matches" \in DOMAIN content THEN content.matches ELSE <<>>
\* The calls of the inspection handler made for request k.
ShownFor(k) == SelectSeq(shown, LAMBDA e : e.msg_id = k)

\* C11: a get_complete call made while execution_state is not idle returns
\* the empty list in the same step, sends no request and leaves the waiting
\* table as it is.
C11_NotIdleReturnsEmpty ==
  /\ \A c \in Callers :
       (calls[c].op = "get_complete" /\ calls[c].state # "idle") =>
         /\ calls[c].done
         /\ calls[c].value = <<>>
         /\ calls[c].msg_id = 0
  /\ [][\A c \in Callers :
         (/\ calls'[c] # calls[c]
          /\ calls'[c].op = "get_complete"
          /\ calls'[c].state # "idle") =>
           /\ requests' = requests
           /\ shell_msg_queues' = shell_msg_queues
           /\ queues' = queues
           /\ pc[c] = "ready" /\ pc'[c] = "ready"]_vars

\* A completion was asked for while the kernel was busy, after an earlier one
\* had been sent: it returned [] and the request count stayed at one.
C11_Witness ==
  /\ calls[MainThread].op = "get_complete"
  /\ calls[MainThread].state = "busy"
  /\ calls[MainThread].done
  /\ Len(requests) = 1
  /\ pc[MainThread] = "ready"

\* C12: when get_complete has received the reply to its request, the list it
\* returns holds one candidate per match the kernel reported, in the kernel's
\* order: the contents of the candidates are the reported matches, and each
\* trigger is its match followed by a tab and an annotation.
C12_CandidatesInKernelOrder ==
  \A c \in Callers :
    (calls[c].op = "get_complete" /\ calls[c].done /\ calls[c].reply # NoMsg)
    => /\ calls[c].reply.parent = calls[c].msg_id
       /\ Contents(calls[c].value) = ReportedMatches(calls[c].reply.content)
       /\ \A i \in 1..Len(calls[c].value) :
            calls[c].value[i][1] \in
              {calls[c].value[i][2] \o "\t" \o a :
                 a \in {"Helium", "function", "<no type info>"}}

\* The kernel answered with the matches foo.bar, foo.baz.
C12_Witness ==
  /\ calls[MainThread].done
  /\ calls[MainThread].value =
       <<<<"foo.bar\tHelium", "foo.bar">>, <<"foo.baz\tHelium", "foo.baz">>>>

C14_ExecuteReturns ==
  \A c \in Callers : (op[c] = "execute_code") ~> (op[c] = "none")

\* execute_code has returned and the kernel has emitted nothing.
C14_Witness ==
  /\ 1 \in id2region
  /\ pc[MainThread] = "ready"
  /\ replied = {}
  /\ published = <<>>
  /\ shell_channel = <<>>

\* The output events still in the IOPub channel.
OutputEvents(channel) ==
  SelectSeq(channel, LAMBDA m : HandlerOf(m.msg_type) # "none")

\* C15 (as claimed): the handler calls made so far are, one for one and in
\* order, the output events the kernel published and the listener has taken,
\* each passed to the handler of its type, and an error event's call carries
\* its ename and the call site of the request that caused it.
C15_ErrorDispatchedOnceWithCallSite ==
  /\ Len(handled) + Len(OutputEvents(iopub_channel)) = Len(published)
  /\ \A j \in 1..Len(handled) :
       /\ handled[j].handler = HandlerOf(published[j].msg_type)
       /\ handled[j].parent = published[j].parent
       /\ published[j].msg_type = MSG_TYPE_ERROR =>
            /\ handled[j].ename = published[j].ename
            /\ handled[j].site = published[j].parent

\* C16 (as claimed): every handler call for an event of an execute request
\* is made with the call site recorded for that request.
C16_EventsCarryCallSite ==
  \A j \in 1..Len(handled) : handled[j].site = handled[j].parent

\* C17 (as claimed): once the session has been shut down it is no longer in
\* the registry and each of its three receivers has been told to exit or has
\* stopped.
C17_ShutdownUnregistersAndStops ==
  closed =>
    /\ kernel_id \notin kernels
    /\ \A r \in Receivers : exit[r] \/ r \notin running

\* C18 (as claimed): once the session has been shut down no request is sent
\* to the kernel any more, and list_kernels does not return its id.
C18_ClosedSessionRejectsCalls ==
  /\ [][closed => requests' = requests]_vars
  /\ [](closed => kernel_id \notin list_kernels)

\* The listener of receiver r takes a message off its channel in this step.
Takes(r) ==
  CASE r = "shell" -> shell_msg = NoMsg /\ shell_msg' # NoMsg
    [] r = "iopub" -> iopub_channel # <<>>
                      /\ iopub_channel' = Tail(iopub_channel)
    [] r = "stdin" -> stdin_channel # <<>>
                      /\ stdin_channel' = Tail(stdin_channel)

\* The listener of receiver r ends an iteration it took a message in.
EndsIteration(r) ==
  IF r = "shell" THEN shell_pc # "recv" /\ shell_pc' = "recv" ELSE Takes(r)

\* What the handlers act on: the state, the tables, the handled events and
\* the prompts shown.
Effects ==
  <<execution_state, shell_msg_queues, queues, id2region, handled, prompted,
    shown>>

\* C19: a listener thread keeps running after a malformed message or an
\* exception of a handler. A receiver stops only once its exit flag is set;
\* the step that logs an exception adds one entry, drops the message without
\* any effect of it, leaves the shell listener at its receive with the lock
\* released, and stops no receiver whose exit flag is not set.
C19_ListenerSurvivesBadMessage ==
  /\ [](\A r \in Receivers : r \notin running => exit[r])
  /\ [](shell_pc = "recv" => shell_msg = NoMsg /\ lock # ShellThread)
  /\ [][logged' # logged =>
         /\ Len(logged') = Len(logged) + 1
         /\ Effects' = Effects
         /\ BadPending' = BadPending - 1
         /\ \A r \in running \ running' : exit[r]]_vars

\* Each listener has logged an exception and passed on a later message of
\* the same channel.
C19_WitnessOf(r) ==
  \E i \in 1..Len(logged) :
    /\ logged[i].receiver = r
    /\ Processed(r) > logged[i].after
    /\ r \in running

C19_Witness == C19_WitnessOf("shell")

\* C20: every receive of a listener times out, so a receiver whose exit flag
\* is set leaves its run loop, whether or not a message arrives; the
\* iteration in which it takes a message with the flag set is its last.
C20_ExitEndsLoop ==
  /\ \A r \in Receivers : exit[r] ~> (r \notin running)
  /\ [][\A r \in Receivers :
         r \notin running => ~Takes(r) /\ r \notin running']_vars
  /\ [][\A r \in Receivers :
         exit[r] /\ EndsIteration(r) => r \notin running']_vars

\* A receiver has left its loop with nothing on its channel.
C20_Witness ==
  /\ "shell" \notin running
  /\ shell_channel = <<>>
  /\ put_done = {}

\* A manager call of the given name has just been made.
Called(name) == result'.op = name /\ result' # result

\* C21: every buffer id in the view-to-kernel table is bound to a kernel
\* that is in the registry.
C21_BoundKernelsRegistered ==
  \A h \in DOMAIN view_kernel_table : view_kernel_table[h] \in kernels

\* C22: the registry never holds, or has held, more than one KernelConnection
\* object for a kernel id, also when two threads look the same id up.
C22_OneConnectionPerKernel ==
  \A k \in KernelIds : objects[k] <= 1

\* C23: list_kernels returns exactly the registered kernels that are alive
\* when it is called and leaves the registry as it is.
C23_ListKernelsFiltersOnly ==
  [][(result'.op = "list_kernels" /\ (result' # result \/ kernels' # kernels))
     => /\ kernels' = kernels
        /\ \A k \in KernelIds :
             k \in result'.value <=> (k \in kernels /\ k \in alive)]_vars

\* A listing that omits a registered kernel that is not alive and names
\* another that is.
C23_Witness ==
  /\ result.op = "list_kernels"
  /\ result.value # {}
  /\ kernels \ alive # {}
  /\ result.value = kernels \cap alive

\* C24: connect_kernel(h, k) binds h to k and to nothing else, remove_view(h)
\* leaves h unbound, get_kernel_for_view(h) returns the kernel h is bound to
\* and raises KeyError for an unbound h; remove_view of an unbound h changes
\* nothing and does not fail; no call touches the binding of another handle.
C24_HandleBoundToLatest ==
  /\ []((result.op = "connect_kernel" /\ result.raised = "none")
         => /\ result.handle \in DOMAIN view_kernel_table
            /\ view_kernel_table[result.handle] = result.value)
  /\ [](result.op = "remove_view"
         => result.raised = "none"
            /\ result.handle \notin DOMAIN view_kernel_table)
  /\ [](result.op = "get_kernel_for_view"
         => IF result.handle \in DOMAIN view_kernel_table
            THEN result.raised = "none"
                 /\ result.value = view_kernel_table[result.handle]
            ELSE result.raised = "KeyError")
  /\ [][(Called("remove_view")
         /\ result'.handle \notin DOMAIN view_kernel_table)
        => view_kernel_table' = view_kernel_table]_vars
  /\ [][\A h \in Handles :
         (h \in DOMAIN view_kernel_table
          /\ ~(result'.op \in {"connect_kernel", "remove_view"}
               /\ result'.handle = h))
         => /\ h \in DOMAIN view_kernel_table'
            /\ view_kernel_table'[h] = view_kernel_table[h]]_vars

\* A handle has been bound to the second kernel while another handle is
\* bound to the first.
C24_Witness ==
  /\ result.op = "connect_kernel"
  /\ result.raised = "none"
  /\ \E h \in DOMAIN view_kernel_table :
       /\ h # result.handle
       /\ view_kernel_table[h] # result.value

TakesInputRequest ==
  /\ stdin_channel # <<>>
  /\ stdin_channel' = Tail(stdin_channel)
  /\ Head(stdin_channel).msg_type = MSG_TYPE_INPUT_REQUEST

\* C26: every input_request the stdin listener receives, password or not,
\* opens exactly one input panel with its prompt; closing a panel either
\* forwards the submitted value as the input reply or, on cancel,
\* interrupts the kernel.
C26_InputRequestRelayed ==
  /\ [][TakesInputRequest =>
         /\ Len(stdin_ui'.panels) = Len(stdin_ui.panels) + 1
         /\ Last(stdin_ui'.panels).prompt = Head(stdin_channel).prompt]_vars
  /\ [][Len(stdin_ui'.panels) < Len(stdin_ui.panels) =>
         \/ Len(stdin_ui'.replies) = Len(stdin_ui.replies) + 1
         \/ stdin_ui'.interrupts = stdin_ui.interrupts + 1]_vars

\* C27: in a flow run by chain_callbacks the steps are started in the
\* order the generator yields them, step n+1 is started only after step n
\* has called the callback, and what the generator receives from its n-th
\* yield is the result step n passed to the callback (None when the step
\* called it without one).
C27_StepsRunInOrder ==
  /\ \A n \in 1..Len(chain.started) : chain.started[n] = n
  /\ Len(chain.started) <= Len(chain.delivered) + 1
  /\ Len(chain.received) = Len(chain.delivered)
  /\ \A n \in 1..Len(chain.delivered) :
       chain.received[n] = IF chain.delivered[n] = <<>>
                           THEN None ELSE chain.delivered[n][1]

\* A three-step flow has ended after a step delivered the empty string
\* and another called back without a result.
C27_Witness ==
  /\ chain.pc = "done"
  /\ chain.len = 3
  /\ \E n \in 1..3 : chain.delivered[n] = <<"">>
  /\ \E n \in 1..3 : chain.delivered[n] = <<>>

\* C28: when the user cancels a panel of an interactive flow (quick-panel
\* index -1, or a cancelled input panel), the flow ends there, and neither
\* that step nor a later one starts, binds, unbinds, interrupts, restarts
\* or shuts down a kernel.
C28_CancelAbortsFlow ==
  [][flow'.cancelled =>
       /\ flow'.pc = "done"
       /\ UNCHANGED <<kernels, view_kernel_table, alive, receivers, objects,
                      result>>]_vars

InTable ==
  {CallerThread(c) : c \in {d \in Callers : pc[d] \in {"lookup", "pop"}}}
    \cup (IF shell_pc = "lookup" THEN {ShellThread} ELSE {})

\* C31: a thread that looks up, inserts into or removes from the waiting
\* table holds shell_msg_queues_lock while it does, the table changes only
\* in a step of the thread holding the lock, and no two threads are inside
\* an access at the same time.
C31_TableAccessUnderLock ==
  /\ [](\A t \in InTable : lock = t)
  /\ [](Cardinality(InTable) <= 1)
  /\ [][shell_msg_queues' # shell_msg_queues => lock \in InTable]_vars

\* A caller is inside its lookup while the shell listener and the other
\* caller both wait for the lock.
C31_Witness ==
  /\ shell_pc = "acquire"
  /\ \E c, d \in Callers :
       /\ pc[c] = "lookup"
       /\ lock = CallerThread(c)
       /\ pc[d] \in {"acquire", "finally"}

\* The callers inside get_complete or get_inspection with their request
\* sent.
Blocking ==
  {c \in Callers : msg_id[c] # 0 /\ op[c] \in {"get_complete", "get_inspection"}}

\* C32: every entry of the waiting table is under the msg_id of a
\* get_complete or get_inspection call that is in progress, so the table is
\* empty when no call is and never larger than the number of such calls.
C32_TableHoldsWaitersOnly ==
  /\ \A k \in DOMAIN shell_msg_queues : \E c \in Blocking : msg_id[c] = k
  /\ Cardinality(DOMAIN shell_msg_queues) <= Cardinality(Blocking)

\* The message is a reply get_complete can build its list from.
WellFormedCompletion(msg) ==
  /\ "content" \in DOMAIN msg
  /\ \/ "matches" \in DOMAIN msg.content
     \/ /\ "metadata" \in DOMAIN msg.content
        /\ JUPYTER_TYPES \in DOMAIN msg.content.metadata

\* C33: when get_complete or get_inspection returns after its request was
\* sent, with the reply handled, after the timeout, or with an exception
\* raised while the reply was read or handled, the table has no entry under
\* the call's msg_id; get_complete raises nothing and returns the empty
\* list for a reply it cannot read.
C33_EntryRemovedOnEveryExit ==
  [][\A c \in Callers :
       (pc[c] = "pop" /\ pc'[c] = "ready") =>
         /\ msg_id[c] \notin DOMAIN shell_msg_queues'
         /\ calls'[c].done
         /\ calls'[c].op = "get_complete" =>
              /\ calls'[c].raised = "none"
              /\ ~WellFormedCompletion(recv_msg[c]) => calls'[c].value = <<>>]_vars

\* get_inspection has returned with the exception its handler raised on the
\* reply, and the table is empty.
C33_Witness ==
  /\ calls[MainThread].op = "get_inspection"
  /\ calls[MainThread].done
  /\ calls[MainThread].raised = "Exception"
  /\ calls[MainThread].reply # NoMsg
  /\ pc[MainThread] = "ready"
  /\ DOMAIN shell_msg_queues = {}

\* C34: a call of get_inspection or get_complete whose request was sent
\* returns control to its caller, whether or not the kernel ever sends the
\* reply.
C34_BlockingCallReturns ==
  \A c \in Callers : (pc[c] = "wait") ~> (pc[c] = "ready")

\* The shell reply to the call of c is on its way to the shell listener or
\* in its hands.
ReplyOnItsWay(c) ==
  \/ \E i \in 1..Len(shell_channel) : shell_channel[i].parent = msg_id[c]
  \/ shell_pc # "recv" /\ shell_msg.parent = msg_id[c]

\* C35: the channels are drained independently: the reply to a caller
\* blocked in queue.get reaches it though the handlers of the IOPub and
\* stdin listeners never return, and while a caller is blocked the IOPub
\* listener can take its next message and finish the handler it is in.
C35_ChannelsIndependent ==
  /\ \A c \in Callers :
       (pc[c] = "wait" /\ ~timeout[c] /\ ReplyOnItsWay(c))
         ~> (pc[c] = "finally" /\ recv_msg[c] # NoMsg)
  /\ [](\A c \in Callers :
          pc[c] = "wait" =>
            /\ ("iopub" \in running /\ iopub_channel # <<>>
                  /\ handling.iopub = NoMsg) => ENABLED IOPubEnter
            /\ handling.iopub # NoMsg => ENABLED IOPubLeave)

\* Both handlers are busy, and since they started the shell listener has
\* queued the reply the blocked caller then got.
C35_Witness ==
  /\ handling.iopub # NoMsg
  /\ handling.stdin # NoMsg
  /\ handling.since = {}
  /\ pc[MainThread] = "finally"
  /\ recv_msg[MainThread] # NoMsg
  /\ msg_id[MainThread] \in put_done

\* C36: the worker hands the queued messages to _communicate one at a time
\* in the order they were queued, each callback gets the messages received
\* for its own message, and no exception of _communicate or of a callback
\* stops the worker.
C36_WorkerFifoAndSurvives ==
  /\ communicator.pc # "stopped"
  /\ \A i, j \in 1..Len(communicator.results) :
       i < j => communicator.results[i].message < communicator.results[j].message
  /\ \A i \in 1..Len(communicator.results) :
       \A k \in 1..Len(communicator.results[i].reply) :
         communicator.results[i].reply[k].parent = communicator.results[i].message

\* The messages hold a reply.
HasReply(messages) ==
  \E i \in 1..Len(messages) : EndsWithReply(messages[i].msg_type)

\* The latest status among the messages is idle.
EndsIdle(messages) ==
  LET status == extract_content(messages, MSG_TYPE_STATUS)
  IN status # <<>> /\ status[Len(status)].execution_state = "idle"

\* C37: in src/kernel.py _communicate returns when a reply and an idle
\* status have both been received on its socket, in either order, and not
\* before; it does not fail for want of a status.
C37_ReturnsOnReplyAndIdle ==
  communicator.revision = "kernel" =>
    /\ \A i \in 1..Len(communicator.results) :
         /\ HasReply(communicator.results[i].reply)
         /\ EndsIdle(communicator.results[i].reply)
    /\ communicator.pc = "recv" =>
         ~(HasReply(communicator.replies) /\ EndsIdle(communicator.replies))
    /\ \A i \in 1..Len(communicator.printed) :
         communicator.printed[i] # "AttributeError"

\* C38: update_run_cell_phantoms is called at most once in any 100 ms:
\* two of its calls are at least 100 ms apart.
C38_UpdatesThrottled ==
  \A i, j \in 1..Len(run_cell_manager.updates) :
    i < j => run_cell_manager.updates[j] - run_cell_manager.updates[i]
               >= RunCellDelay

\* C39: whatever was typed into and deleted from the masked panel, at any
\* position and "*" included, on_done is given the text typed.
C39_PasswordIsWhatWasTyped ==
  password_input.pc = "done" => password_input.on_done = password_input.typed

\* The delimiters of the buffer that begin at or before the point, and
\* those that begin after it.
DelimitersUpTo(buffer, point) ==
  {k \in 1..Len(Separators(buffer)) : Separators(buffer)[k][1] <= point}
DelimitersAfter(buffer, point) ==
  {k \in 1..Len(Separators(buffer)) : Separators(buffer)[k][1] > point}

\* Where the cell of the point starts and ends: after the newline of the
\* nearest delimiter at or before it, or at the start of the buffer; before
\* the newline in front of the next delimiter, or at the end of the buffer.
CellStart(buffer, point) ==
  IF DelimitersUpTo(buffer, point) = {} THEN 0
  ELSE LET k == CHOOSE k \in DelimitersUpTo(buffer, point) :
                  \A m \in DelimitersUpTo(buffer, point) : m <= k
       IN Separators(buffer)[k][2] + 1
CellEnd(buffer, point) ==
  IF DelimitersAfter(buffer, point) = {} THEN Size(buffer)
  ELSE LET k == CHOOSE k \in DelimitersAfter(buffer, point) :
                  \A m \in DelimitersAfter(buffer, point) : k <= m
       IN Separators(buffer)[k][1] - 1

\* C40: for a cursor anywhere in the buffer get_cell returns the cell of
\* the cursor, from just after the nearest delimiter at or before it (or the
\* start of the buffer) to just before the next one (or the end of the
\* buffer), its start not after its end; a selection is returned as it is.
C40_CellOfCursor ==
  cell.pc = "done" =>
    /\ cell.result.raised = "none"
    /\ IF cell.region[1] # cell.region[2]
       THEN /\ cell.result.start = cell.region[1]
            /\ cell.result.end = cell.region[2]
       ELSE /\ cell.result.start = CellStart(cell.buffer, cell.region[1])
            /\ cell.result.end = CellEnd(cell.buffer, cell.region[1])
            /\ cell.result.start <= cell.result.end
====
